---- MODULE Spec2Model ----
(***************************************************************************)
(* Model of the CloudStack modules cs_account, cs_cluster, cs_nic and      *)
(* cs_instance_facts and of the AnsibleCloudStack base class they share.   *)
(*                                                                         *)
(* A behaviour is a sequence of invocations (runs) of one module with the  *)
(* same options against one remote platform.  Inside a run every action is *)
(* one block of a method of the source; it issues at most one mutating     *)
(* remote call.  The platform answers every mutating call either with a    *)
(* result or with an error payload, and finishes asynchronous jobs on its  *)
(* own schedule.                                                           *)
(***************************************************************************)
EXTENDS Integers, Sequences, FiniteSets, TLC

VARIABLES
    module,      \* the program that is invoked
    argv,        \* the options the module is invoked with
    params,      \* module.params
    environ,     \* os.environ
    check_mode,  \* module.check_mode
    remote,      \* the state of the remote platform
    self,        \* the attributes of the AnsibleCloudStack instance
    result,      \* self.result: changed and diff
    pc,          \* the block of the run that executes next
    stack,       \* the blocks to come back to, innermost first
    cur,         \* the local variable account / cluster / nic / resource
    job,         \* poll_job: the local variable job
    key,         \* poll_job: the parameter key
    status,      \* running | ok | failed | crashed
    msg,         \* the message of fail_json, or the type of the exception
    calls,       \* the remote calls of this run, in order
    queries,     \* the queryAsyncJobResult calls of this run
    run,         \* the number of this run
    begin,       \* the platform as it was when this run began
    prev         \* what the previous run ended with

vars == <<module, argv, params, environ, check_mode, remote, self, result, pc, stack,
          cur, job, key, status, msg, calls, queries, run, begin, prev>>

-----------------------------------------------------------------------------
(* Bounds *)

\* the runs of one behaviour
MaxRuns == 2

\* the status queries of a run that are counted; later ones leave the count
MaxPolls == 2

\* the tags of a list of tags
MaxTags == 2

-----------------------------------------------------------------------------
(* Python values *)

\* None, for an option, an environment variable or a returned string
None == "None"

\* None, where the code holds a dictionary
NoneD == [None |-> TRUE]

\* dict.get(k) on module.params: None for an option the module does not have
P(k) == IF k \in DOMAIN params THEN params[k] ELSE None

\* os.environ.get(k)
E(k) == IF k \in DOMAIN environ THEN environ[k] ELSE None

\* the strings the options and the platform hold that are not lower case,
\* with str.lower() of each
LowerMap ==
    ("ROOT" :> "root") @@ ("ROOT/CUSTOMERS" :> "root/customers")
    @@ ("CUSTOMERS" :> "customers") @@ ("/CUSTOMERS" :> "/customers")
    @@ ("KVM" :> "kvm") @@ ("VMware" :> "vmware")
    @@ ("Enabled" :> "enabled") @@ ("Disabled" :> "disabled")
    @@ ("CloudManaged" :> "cloudmanaged") @@ ("ExternalManaged" :> "externalmanaged")
    @@ ("CL1" :> "cl1") @@ ("c-CL1" :> "c-cl1") @@ ("NOSUCH" :> "nosuch")
    @@ ("Web1" :> "web1") @@ ("WEB1" :> "web1")
    @@ ("Zone1" :> "zone1") @@ ("Zone2" :> "zone2") @@ ("NET1" :> "net1")
    @@ ("Debian" :> "debian") @@ ("CentOS" :> "centos") @@ ("Plan9" :> "plan9")
    @@ ("Managed" :> "managed") @@ ("UserVm" :> "uservm") @@ ("A" :> "a") @@ ("B" :> "b")
    @@ ("Z-1" :> "z-1") @@ ("PROJ1" :> "proj1") @@ ("PR-1" :> "pr-1")
    @@ ("VM-1" :> "vm-1") @@ ("Xen" :> "xen") @@ ("c-CL1b" :> "c-cl1b")

\* str.lower(): every other string of the options and of the platform is
\* in lower case already
Lower(s) == IF s \in DOMAIN LowerMap THEN LowerMap[s] ELSE s

\* str.capitalize() of the state names it is used on
Capitalize(s) ==
    CASE s = "enabled" -> "Enabled"
      [] s = "disabled" -> "Disabled"
      [] OTHER -> s

\* the greatest element of a non-empty set of numbers
Max(S) == CHOOSE x \in S : \A y \in S : x >= y

\* the least element of a non-empty set of numbers
Min(S) == CHOOSE x \in S : \A y \in S : x <= y

\* the elements of a sequence
Range(s) == {s[i] : i \in 1..Len(s)}

-----------------------------------------------------------------------------
(* The run in progress, as the value the lookups thread through:           *)
(* c.self the instance attributes, c.calls the remote calls so far,        *)
(* c.status and c.msg the outcome, c.ret the value returned.               *)

Ctx == [self |-> self, calls |-> calls, status |-> status, msg |-> msg, ret |-> None]

\* return v
Ret(c, v) == [c EXCEPT !.ret = v]

\* module.fail_json(msg=m): the run ends failed, nothing after it executes
fail_json(c, m) == [c EXCEPT !.status = "failed", !.msg = m]

\* an exception no handler catches: the run ends with a traceback
Raise(c, exc) == [c EXCEPT !.status = "crashed", !.msg = exc]

\* self.cs.<api>(**args): the call is recorded
Call(c, call) == [c EXCEPT !.calls = Append(@, call)]

\* the value of F on the run c, c evaluated once
On(c, F(_)) == CHOOSE r \in {F(x) : x \in {c}} : TRUE

\* the APIs that change the platform
MutatingApis ==
    {"createAccount", "enableAccount", "disableAccount", "deleteAccount",
     "addCluster", "updateCluster", "deleteCluster",
     "addIpToNic", "removeIpFromNic", "createTags", "deleteTags"}

\* the mutating calls among a sequence of calls
Mutating(cs) == SelectSeq(cs, LAMBDA x : x.api \in MutatingApis)

\* the names of the APIs of a sequence of calls
Apis(cs) == [i \in 1..Len(cs) |-> cs[i].api]

-----------------------------------------------------------------------------
(* The remote platform.  remote.domains, accounts, zones, projects, pods,  *)
(* clusters, vms, nics, networks, vpcs are the lists the list APIs answer  *)
(* from, remote.tags the tags of the tagged resource, remote.jobs the      *)
(* asynchronous jobs, the job id being the index.                          *)

\* the error text of the platform
ErrorText == "platform error"

\* listDomains(listall=True)
listDomains == remote.domains

\* listAccounts(name=..., domainid=..., listall=True); an argument None is not sent
listAccounts(name, domainid) ==
    SelectSeq(remote.accounts,
              LAMBDA a : /\ (name = None \/ a.name = name)
                         /\ (domainid = None \/ a.domainid = domainid))

\* listProjects(account=..., domainid=...)
listProjects(account, domainid) ==
    SelectSeq(remote.projects,
              LAMBDA p : /\ (account = None \/ p.account = account)
                         /\ (domainid = None \/ p.domainid = domainid))

\* listZones()
listZones == remote.zones

\* listPods(name=..., zoneid=...)
listPods(name, zoneid) ==
    SelectSeq(remote.pods, LAMBDA p : /\ (name = None \/ p.name = name)
                                      /\ (zoneid = None \/ p.zoneid = zoneid))

\* listVPCs(account=..., domainid=..., projectid=..., zoneid=...); the
\* resources of a project carry its id under projectid
listVPCs(account, domainid, projectid) ==
    SelectSeq(remote.vpcs, LAMBDA v : /\ (account = None \/ v.account = account)
                                      /\ (domainid = None \/ v.domainid = domainid)
                                      /\ (projectid = None
                                          \/ ("projectid" \in DOMAIN v
                                              /\ v.projectid = projectid)))

\* listNetworks(account=..., domainid=..., projectid=..., zoneid=..., vpcid=...)
listNetworks(account, domainid, projectid, vpcid) ==
    SelectSeq(remote.networks,
              LAMBDA n : /\ (account = None \/ n.account = account)
                         /\ (domainid = None \/ n.domainid = domainid)
                         /\ (projectid = None
                             \/ ("projectid" \in DOMAIN n /\ n.projectid = projectid))
                         /\ (vpcid = None \/ ("vpcid" \in DOMAIN n /\ n.vpcid = vpcid)))

\* listVirtualMachines(account=..., domainid=..., projectid=..., zoneid=..., vpcid=...)
listVirtualMachines(account, domainid, projectid, vpcid) ==
    SelectSeq(remote.vms,
              LAMBDA v : /\ (account = None \/ v.account = account)
                         /\ (domainid = None \/ v.domainid = domainid)
                         /\ (projectid = None
                             \/ ("projectid" \in DOMAIN v /\ v.projectid = projectid))
                         /\ (vpcid = None \/ ("vpcid" \in DOMAIN v /\ v.vpcid = vpcid)))

\* listNics(virtualmachineid=..., networkid=...)
listNics(virtualmachineid, networkid) ==
    SelectSeq(remote.nics,
              LAMBDA n : /\ n.virtualmachineid = virtualmachineid
                         /\ (networkid = None \/ n.networkid = networkid))

\* listClusters(id=..., name=...); an argument None is not sent
listClusters(id, name) ==
    SelectSeq(remote.clusters, LAMBDA x : /\ (id = None \/ x.id = id)
                                          /\ (name = None \/ x.name = name))

\* queryAsyncJobResult(jobid=...): jobresult is there once the platform has one
queryAsyncJobResult(jobid) ==
    LET j == remote.jobs[jobid] IN
    IF j.hasresult
    THEN [jobid |-> jobid, jobstatus |-> j.jobstatus, jobresult |-> j.jobresult]
    ELSE [jobid |-> jobid, jobstatus |-> j.jobstatus]

\* a job the platform has accepted and not finished: status 0, no result
NewJob(effect) ==
    [jobstatus |-> 0, hasresult |-> FALSE, jobresult |-> NoneD, effect |-> effect]

-----------------------------------------------------------------------------
(* AnsibleCloudStack: the lookups of the scope *)

\* _get_by_key(key, my_dict): a dictionary that is None is taken as the
\* empty dictionary
get_by_key(c, k, my_dict) ==
    On(IF my_dict = NoneD THEN << >> ELSE my_dict, LAMBDA d :
    IF k # None
    THEN IF k \in DOMAIN d
         THEN Ret(c, d[k])
         ELSE fail_json(c, "Something went wrong: " \o k \o " not found")
    ELSE Ret(c, d))

\* the paths get_domain accepts for the name domain
DomainPaths(domain) ==
    {Lower(domain), "root/" \o Lower(domain), "root" \o Lower(domain)}

\* get_domain that keeps no domain it has found
get_domain_again(c0, k) ==
    On(c0, LAMBDA c :
    IF c.status # "running" THEN c
    ELSE LET domain == IF P("domain") # None THEN P("domain")
                       ELSE E("CLOUDSTACK_DOMAIN")
             domains == listDomains
             hits == {i \in 1..Len(domains) :
                         Lower(domains[i].path) \in DomainPaths(domain)}
         IN
         IF domain = None THEN Ret(c, None)
         ELSE On(Call(c, [api |-> "listDomains"]), LAMBDA c1 :
              IF hits # {}
              THEN get_by_key(c1, k, domains[Min(hits)])
              ELSE fail_json(c1, "Domain '" \o domain \o "' not found")))

\* get_domain(key)
get_domain(c0, k) ==
    On(c0, LAMBDA c :
    IF c.status # "running" THEN c
    ELSE IF c.self.domain # NoneD THEN get_by_key(c, k, c.self.domain)
    ELSE LET domain == IF P("domain") # None THEN P("domain")
                       ELSE E("CLOUDSTACK_DOMAIN")
             domains == listDomains
             hits == {i \in 1..Len(domains) :
                         Lower(domains[i].path) \in DomainPaths(domain)}
         IN
         IF domain = None THEN Ret(c, None)
         ELSE On(Call(c, [api |-> "listDomains"]), LAMBDA c1 :
              IF hits # {}
              THEN get_by_key([c1 EXCEPT !.self.domain = domains[Min(hits)]],
                              k, domains[Min(hits)])
              ELSE fail_json(c1, "Domain '" \o domain \o "' not found")))

\* get_account that looks the account up without a domain
AccountAlwaysHasDomain == TRUE

\* get_account: whether the account may be looked up (the option domain is set)
AccountHasDomain == P("domain") # None

\* get_account(key)
get_account(c0, k) ==
    On(c0, LAMBDA c :
    IF c.status # "running" THEN c
    ELSE IF c.self.account # NoneD THEN get_by_key(c, k, c.self.account)
    ELSE LET account == IF P("account") # None THEN P("account")
                        ELSE E("CLOUDSTACK_ACCOUNT")
         IN
         IF account = None THEN Ret(c, None)
         ELSE IF ~AccountHasDomain
         THEN fail_json(c, "Account must be specified with Domain")
         ELSE On(get_domain(c, "id"), LAMBDA c1 :
              IF c1.status # "running" THEN c1
              ELSE LET accounts == listAccounts(account, c1.ret) IN
                   On(Call(c1, [api |-> "listAccounts", name |-> account,
                                domainid |-> c1.ret]), LAMBDA c2 :
                   IF Len(accounts) > 0
                   THEN get_by_key([c2 EXCEPT !.self.account = accounts[1]],
                                   k, accounts[1])
                   ELSE fail_json(c2, "Account '" \o account \o "' not found"))))

\* get_project(key)
get_project(c0, k) ==
    On(c0, LAMBDA c :
    IF c.status # "running" THEN c
    ELSE IF c.self.project # NoneD THEN get_by_key(c, k, c.self.project)
    ELSE LET project == IF P("project") # None THEN P("project")
                        ELSE E("CLOUDSTACK_PROJECT")
         IN
         IF project = None THEN Ret(c, None)
         ELSE On(get_account(c, "name"), LAMBDA c1 :
              On(get_domain(c1, "id"), LAMBDA c2 :
              IF c2.status # "running" THEN c2
              ELSE LET projects == listProjects(c1.ret, c2.ret)
                       hits == {i \in 1..Len(projects) :
                                   Lower(project) \in {Lower(projects[i].name),
                                                       projects[i].id}}
                   IN
                   On(Call(c2, [api |-> "listProjects", account |-> c1.ret,
                                domainid |-> c2.ret]), LAMBDA c3 :
                   IF hits # {}
                   THEN get_by_key([c3 EXCEPT !.self.project = projects[Min(hits)]],
                                   k, projects[Min(hits)])
                   ELSE fail_json(c3, "project '" \o project \o "' not found")))))

\* get_zone(key)
get_zone(c0, k) ==
    On(c0, LAMBDA c :
    IF c.status # "running" THEN c
    ELSE IF c.self.zone # NoneD THEN get_by_key(c, k, c.self.zone)
    ELSE LET zone == IF P("zone") # None THEN P("zone") ELSE E("CLOUDSTACK_ZONE")
             zones == listZones
             hits == {i \in 1..Len(zones) :
                         Lower(zone) \in {Lower(zones[i].name), zones[i].id}}
         IN
         On(Call(c, [api |-> "listZones"]), LAMBDA c1 :
         IF zone = None
         THEN IF Len(zones) > 0
              THEN get_by_key([c1 EXCEPT !.self.zone = zones[1]], k, zones[1])
              ELSE Raise(c1, "KeyError")
         ELSE IF hits # {}
         THEN get_by_key([c1 EXCEPT !.self.zone = zones[Min(hits)]], k, zones[Min(hits)])
         ELSE fail_json(c1, "zone '" \o zone \o "' not found")))

\* get_os_type(key); the OS types are remote.ostypes.  With an OS type kept
\* from an earlier call the value is taken from self.zone
get_os_type(c0, k) ==
    On(c0, LAMBDA c :
    IF c.status # "running" THEN c
    ELSE IF c.self.os_type # NoneD THEN get_by_key(c, k, c.self.zone)
    ELSE IF P("os_type") = None THEN Ret(c, None)
    ELSE LET os_types == remote.ostypes
             hits == {i \in 1..Len(os_types) :
                         P("os_type") \in {os_types[i].description, os_types[i].id}}
         IN
         On(Call(c, [api |-> "listOsTypes"]), LAMBDA c1 :
         IF hits # {}
         THEN get_by_key([c1 EXCEPT !.self.os_type = os_types[Min(hits)]],
                         k, os_types[Min(hits)])
         ELSE fail_json(c1, "OS type '" \o P("os_type") \o "' not found")))

\* get_hypervisor(); the hypervisors are remote.hypervisors.  What is kept
\* is the name; without the option it is that of the first hypervisor listed
get_hypervisor(c0) ==
    On(c0, LAMBDA c :
    IF c.status # "running" THEN c
    ELSE IF c.self.hypervisor # None THEN Ret(c, c.self.hypervisor)
    ELSE LET hypervisors == remote.hypervisors
             hits == {i \in 1..Len(hypervisors) :
                         Lower(P("hypervisor")) = Lower(hypervisors[i].name)}
         IN
         On(Call(c, [api |-> "listHypervisors"]), LAMBDA c1 :
         IF Len(hypervisors) = 0 THEN Raise(c1, "KeyError")
         ELSE IF P("hypervisor") = None
         THEN Ret([c1 EXCEPT !.self.hypervisor = hypervisors[1].name],
                  hypervisors[1].name)
         ELSE IF hits # {}
         THEN Ret([c1 EXCEPT !.self.hypervisor = hypervisors[Min(hits)].name],
                  hypervisors[Min(hits)].name)
         ELSE fail_json(c1, "Hypervisor '" \o P("hypervisor") \o "' not found")))

-----------------------------------------------------------------------------
(* The platform's side of the mutating calls *)

\* what the platform answers a mutating call with: its result, or an error payload
Answers == {"ok", "error"}

\* the response that carries the error text
ErrorResponse == [errortext |-> ErrorText]

\* a sequence of dictionaries with those of id i replaced by d
Replace(seq, i, d) == [n \in 1..Len(seq) |-> IF seq[n].id = i THEN d ELSE seq[n]]

\* a sequence of dictionaries without those of id i
Without(seq, i) == SelectSeq(seq, LAMBDA x : x.id # i)

\* the dictionary of id i in a sequence that has one
ById(seq, i) == seq[Min({n \in 1..Len(seq) : seq[n].id = i})]

\* whether a sequence of dictionaries has one of id i
HasId(seq, i) == \E n \in 1..Len(seq) : seq[n].id = i

\* AnsibleCloudStackAccount: the account types and their numbers
account_types == ("user" :> 0) @@ ("root_admin" :> 1) @@ ("domain_admin" :> 2)

\* get_account_type(); the option account_type is user unless it is given
get_account_type ==
    account_types[IF P("account_type") = None THEN "user" ELSE P("account_type")]

\* the account createAccount makes: the platform creates accounts enabled
NewAccount(name, domainid) ==
    [id |-> "a-" \o name, name |-> name, state |-> "enabled", domainid |-> domainid,
     domain |-> IF HasId(remote.domains, domainid)
                THEN ById(remote.domains, domainid).name ELSE None,
     accounttype |-> get_account_type]

\* the platform after an accepted call or a succeeded job of effect eff
ApplyEffect(r, eff) ==
    CASE eff.op = "createAccount" ->
            [r EXCEPT !.accounts = Append(@, eff.account)]
      [] eff.op = "enableAccount" ->
            [r EXCEPT !.accounts =
                Replace(@, eff.id, [ById(@, eff.id) EXCEPT !.state = "enabled"])]
      [] eff.op = "disableAccount" ->
            [r EXCEPT !.accounts =
                Replace(@, eff.id,
                        [ById(@, eff.id) EXCEPT
                            !.state = IF eff.lock THEN "locked" ELSE "disabled"])]
      [] eff.op = "deleteAccount" ->
            [r EXCEPT !.accounts = Without(@, eff.id)]
      [] eff.op = "createTags" ->
            [r EXCEPT !.tags = @ \o SelectSeq(eff.tags, LAMBDA t : t \notin Range(@))]
      [] eff.op = "deleteTags" ->
            [r EXCEPT !.tags = SelectSeq(@, LAMBDA t : t \notin Range(eff.tags))]
      [] eff.op = "addIpToNic" ->
            [r EXCEPT !.nics =
                Replace(@, eff.nicid,
                        [ById(@, eff.nicid) EXCEPT !.secondaryip = Append(@, eff.ip)])]
      [] eff.op = "removeIpFromNic" ->
            [r EXCEPT !.nics =
                [n \in 1..Len(@) |->
                    [@[n] EXCEPT !.secondaryip = Without(@, eff.id)]]]
      [] eff.op = "addCluster" ->
            [r EXCEPT !.clusters = Append(@, eff.cluster)]
      [] eff.op = "updateCluster" ->
            [r EXCEPT !.clusters = Replace(@, eff.id, eff.cluster)]
      [] eff.op = "deleteCluster" ->
            [r EXCEPT !.clusters = Without(@, eff.id)]
      [] OTHER -> r

\* whether the platform can carry out eff: the resource it names is there
Applicable(r, eff) ==
    CASE eff.op \in {"enableAccount", "disableAccount", "deleteAccount"} ->
            HasId(r.accounts, eff.id)
      [] eff.op \in {"updateCluster", "deleteCluster"} ->
            HasId(r.clusters, eff.id)
      [] eff.op = "addIpToNic" ->
            /\ HasId(r.nics, eff.nicid)
            /\ \A s \in Range(ById(r.nics, eff.nicid).secondaryip) :
                  s.ipaddress # eff.ip.ipaddress
      [] eff.op = "removeIpFromNic" ->
            \E n \in 1..Len(r.nics) : HasId(r.nics[n].secondaryip, eff.id)
      [] OTHER -> TRUE

\* the results a succeeded job of effect eff may carry, r the platform after it
JobResults(r, eff) ==
    CASE eff.op = "disableAccount" -> {[account |-> ById(r.accounts, eff.id)]}
      [] eff.op = "addIpToNic" -> {[nicsecondaryip |-> eff.ip]}
      [] eff.op = "probe" -> {[account |-> [id |-> "a-acme", state |-> "enabled"]],
                              [success |-> TRUE]}
      [] OTHER -> {[success |-> TRUE]}

\* the platform finishes job j: it succeeds with a result, fails with an error
\* text, or reports a final status without a result
JobFinish(j) ==
    /\ j \in 1..Len(remote.jobs)
    /\ remote.jobs[j].jobstatus = 0
    /\ \E outcome \in {"success", "failure", "noresult"} :
        LET eff == remote.jobs[j].effect
            done == IF outcome = "failure" \/ ~Applicable(remote, eff)
                    THEN remote ELSE ApplyEffect(remote, eff)
        IN
        \/ /\ outcome = "success"
           /\ Applicable(remote, eff)
           /\ \E res \in JobResults(done, eff) :
                remote' = [done EXCEPT !.jobs[j] =
                             [@ EXCEPT !.jobstatus = 1, !.hasresult = TRUE,
                                       !.jobresult = res]]
        \/ /\ outcome = "failure"
           /\ remote' = [remote EXCEPT !.jobs[j] =
                           [@ EXCEPT !.jobstatus = 2, !.hasresult = TRUE,
                                     !.jobresult = [errorcode |-> 530,
                                                    errortext |-> ErrorText]]]
        \/ /\ outcome = "noresult"
           /\ remote' = [done EXCEPT !.jobs[j] = [@ EXCEPT !.jobstatus = 1]]
    /\ UNCHANGED <<module, argv, params, environ, check_mode, self, result, pc, stack,
                   cur, job, key, status, msg, calls, queries, run, begin, prev>>

\* the platform finishes one of its pending jobs
PlatformFinishesJob == \E j \in 1..Len(remote.jobs) : JobFinish(j)

-----------------------------------------------------------------------------
(* The steps of a run *)

\* the block ends with the run in state c: changed is set to ch, the local
\* variable to v, the platform is r; the run goes on at block p with the
\* blocks st to come back to, unless c has failed or crashed
Step(c, ch, v, r, p, st) ==
    /\ self' = c.self
    /\ calls' = c.calls
    /\ status' = c.status
    /\ msg' = c.msg
    /\ result' = [result EXCEPT !.changed = ch]
    /\ cur' = v
    /\ remote' = r
    /\ pc' = IF c.status = "running" THEN p ELSE "done"
    /\ stack' = IF c.status = "running" THEN st ELSE <<>>

\* the block calls the method at block p and goes on at block back after it
CallMethod(c, v, p, back) ==
    /\ Step(c, result.changed, v, remote, p, <<back>> \o stack)
    /\ UNCHANGED <<job, key, queries>>

\* the required parameters all taken to be missing
AllParamsMissing(required) == required

\* the required parameters, of a list, that are not given
MissingParams(required) == SelectSeq(required, LAMBDA f : P(f) = None)

\* ','.join(names)
RECURSIVE Join(_)
Join(names) ==
    IF Len(names) = 0 THEN ""
    ELSE IF Len(names) = 1 THEN names[1]
    ELSE names[1] \o "," \o Join(Tail(names))

\* fail_on_missing_params that lets every invocation pass
pass_on_missing_params(c, required) == c

\* module.fail_on_missing_params(required_params)
fail_on_missing_params(c, required) ==
    IF MissingParams(required) # <<>>
    THEN fail_json(c, "missing required arguments: " \o Join(MissingParams(required)))
    ELSE c

\* the message of a failed job without its error text
FailedWithoutText(text) == "Failed"

\* the message of a failed platform call
Failed(text) == "Failed: '" \o text \o "'"

-----------------------------------------------------------------------------
(* AnsibleCloudStack.poll_job *)

\* poll_job that takes no response to carry a job id
NeverHasJobId(j) == FALSE

\* poll_job: whether the response carries a job id
HasJobId(j) == "jobid" \in DOMAIN j

\* poll_job that ends its loop on a succeeded job only
PollEndsOnSuccess(res) == res.jobstatus = 1 /\ "jobresult" \in DOMAIN res

\* poll_job: whether the loop ends on the answer res of queryAsyncJobResult
PollEnds(res) == res.jobstatus # 0 /\ "jobresult" \in DOMAIN res

\* poll_job that returns the result of the job when the key is not in it
PollValueOrPayload(j, k, res) ==
    IF k # None /\ k \in DOMAIN res.jobresult THEN res.jobresult[k] ELSE res.jobresult

\* poll_job: the value returned when the loop ends on res without an error
PollValue(j, k, res) ==
    IF k # None /\ k \in DOMAIN res.jobresult THEN res.jobresult[k] ELSE j

\* poll_job that extracts the key from a response without a job id
UnpolledExtracted(j, k) == IF k # None /\ k \in DOMAIN j THEN j[k] ELSE j

\* poll_job: the value returned for a response without a job id
Unpolled(j, k) == j

\* poll_job(job, key): the test for a job id, and one query of the loop
poll_job ==
    /\ pc = "poll_job"
    /\ status = "running"
    /\ IF ~HasJobId(job)
       THEN /\ job' = Unpolled(job, key)
            /\ pc' = Head(stack)
            /\ stack' = Tail(stack)
            /\ UNCHANGED <<queries, status, msg>>
       ELSE \E res \in {queryAsyncJobResult(job.jobid)} :
            /\ queries' = IF queries < MaxPolls THEN queries + 1 ELSE queries
            /\ IF PollEnds(res)
               THEN IF "errortext" \in DOMAIN res.jobresult
                    THEN /\ status' = "failed"
                         /\ msg' = Failed(res.jobresult.errortext)
                         /\ pc' = "done"
                         /\ stack' = <<>>
                         /\ job' = job
                    ELSE /\ job' = PollValue(job, key, res)
                         /\ pc' = Head(stack)
                         /\ stack' = Tail(stack)
                         /\ UNCHANGED <<status, msg>>
               ELSE /\ pc' = "poll_sleep"
                    /\ UNCHANGED <<job, stack, status, msg>>
    /\ UNCHANGED <<module, argv, params, environ, check_mode, remote, self, result, cur,
                   key, calls, run, begin, prev>>

\* poll_job: time.sleep(2), then the next query
poll_sleep ==
    /\ pc = "poll_sleep"
    /\ status = "running"
    /\ pc' = "poll_job"
    /\ UNCHANGED <<module, argv, params, environ, check_mode, remote, self, result, stack,
                   cur, job, key, status, msg, calls, queries, run, begin, prev>>

\* the block calls poll_job(j, k) and goes on at block back after it
CallPoll(c, ch, v, r, j, k, back) ==
    /\ Step(c, ch, v, r, "poll_job", <<back>> \o stack)
    /\ job' = j
    /\ key' = k
    /\ UNCHANGED queries

\* a return that leaves changed as it was when the block began
ReturnUnchanged(c, ch, v, r) ==
    /\ Step(c, result.changed, v, r, Head(stack), Tail(stack))
    /\ UNCHANGED <<job, key, queries>>

\* the block returns v to its caller
Return(c, ch, v, r) ==
    /\ Step(c, ch, v, r, Head(stack), Tail(stack))
    /\ UNCHANGED <<job, key, queries>>

\* what no block of a run changes
Frame == UNCHANGED <<module, argv, params, environ, check_mode, run, begin, prev>>

-----------------------------------------------------------------------------
(* AnsibleCloudStack.get_result *)

\* common_returns and the returns of the subclasses: search key -> return key
Returns ==
    [k \in {"id", "name", "created", "state", "project", "account", "domain",
            "description", "netmask", "group", "hypervisor", "password"} |-> k]
    @@ ("zonename" :> "zone") @@ ("displaytext" :> "display_text")
    @@ ("displayname" :> "display_name")
    @@ ("networkdomain" :> "network_domain")
    @@ ("allocationstate" :> "allocation_state") @@ ("hypervisortype" :> "hypervisor")
    @@ ("clustertype" :> "cluster_type") @@ ("podname" :> "pod")
    @@ ("managedstate" :> "managed_state")
    @@ ("memoryovercommitratio" :> "memory_overcommit_ratio")
    @@ ("cpuovercommitratio" :> "cpu_overcommit_ratio") @@ ("ovm3vip" :> "ovm3_vip")
    @@ ("ipaddress" :> "ip_address") @@ ("macaddress" :> "mac_address")
    @@ ("instancename" :> "instance_name") @@ ("publicip" :> "public_ip")
    @@ ("passwordenabled" :> "password_enabled")
    @@ ("serviceofferingname" :> "service_offering") @@ ("isoname" :> "iso")
    @@ ("templatename" :> "template") @@ ("keypair" :> "ssh_key")

\* the search keys the module returns: the common ones and its own
ReturnedKeys(m) ==
    {"id", "name", "created", "zonename", "state", "project", "account", "domain",
     "displaytext", "displayname", "description"}
    \cup (CASE m = "account" -> {"networkdomain"}
            [] m = "cluster" -> {"allocationstate", "hypervisortype", "clustertype",
                                 "podname", "managedstate", "memoryovercommitratio",
                                 "cpuovercommitratio", "ovm3vip"}
            [] m = "nic" -> {"ipaddress", "macaddress", "netmask"}
            [] m = "facts" -> {"group", "hypervisor", "instancename", "publicip",
                               "passwordenabled", "password", "serviceofferingname",
                               "isoname", "templatename", "keypair"}
            [] OTHER -> {})

\* get_result(resource): the fields of the resource under their return keys,
\* and its tags if it carries the key tags
ResultOf(m, resource) ==
    IF resource = NoneD THEN << >>
    ELSE LET found == DOMAIN resource \cap ReturnedKeys(m) IN
         (IF "tags" \in DOMAIN resource
          THEN "tags" :> [i \in 1..Len(resource.tags) |->
                            [key |-> resource.tags[i].key,
                             value |-> resource.tags[i].value]]
          ELSE << >>)
         @@ [rk \in {Returns[k] : k \in found} |->
                resource[CHOOSE k \in found : Returns[k] = rk]]

-----------------------------------------------------------------------------
(* cs_account: AnsibleCloudStackAccount *)

\* the parameters present_account requires
RequiredAccountParams == <<"email", "username", "password", "first_name", "last_name">>

\* lock_account() and disable_account(): the argument lock
Lock == P("state") = "locked"

\* AnsibleCloudStackAccount.get_account(): whether account a is the one named
IsNamedAccount(a) == P("name") = a.name

\* AnsibleCloudStackAccount.get_account()
account_get_account(c0) ==
    On(c0, LAMBDA c :
    IF c.status # "running" THEN c
    ELSE IF c.self.account # NoneD THEN Ret(c, c.self.account)
    ELSE On(get_domain(c, "id"), LAMBDA c1 :
         IF c1.status # "running" THEN c1
         ELSE LET accounts == listAccounts(None, c1.ret)
                  hits == {i \in 1..Len(accounts) : IsNamedAccount(accounts[i])}
              IN
              On(Call(c1, [api |-> "listAccounts", domainid |-> c1.ret]), LAMBDA c2 :
              IF hits # {}
              THEN Ret([c2 EXCEPT !.self.account = accounts[Min(hits)]],
                       accounts[Min(hits)])
              ELSE Ret(c2, NoneD))))

\* present_account()
present_account ==
    /\ pc = "present_account"
    /\ status = "running"
    /\ Frame
    /\ \E answer \in Answers,
          c1 \in {account_get_account(fail_on_missing_params(Ctx,
                                                           RequiredAccountParams))} :
        IF c1.status # "running" THEN Return(c1, result.changed, cur, remote)
        ELSE IF c1.ret # NoneD THEN Return(c1, result.changed, c1.ret, remote)
        ELSE \E c2 \in {get_domain(c1, "id")} :
             \E c3 \in {Call(c2, [api |-> "createAccount", account |-> P("name"),
                                  domainid |-> c2.ret,
                                  accounttype |-> get_account_type])},
                account \in {NewAccount(P("name"), c2.ret)} :
             IF check_mode THEN Return(c2, TRUE, NoneD, remote)
             ELSE IF answer = "error"
             THEN Return(fail_json(c3, Failed(ErrorText)), TRUE, NoneD, remote)
             ELSE Return(c3, TRUE, account,
                         ApplyEffect(remote, [op |-> "createAccount",
                                              account |-> account]))

\* enable_account(): the account is looked up, and created if it is not there
enable_account ==
    /\ pc = "enable_account"
    /\ status = "running"
    /\ Frame
    /\ \E c1 \in {account_get_account(Ctx)} :
       IF c1.status # "running"
       THEN Return(c1, result.changed, cur, remote)
       ELSE IF c1.ret = NoneD
       THEN CallMethod(c1, NoneD, "present_account", "enable_account_state")
       ELSE /\ Step(c1, result.changed, c1.ret, remote, "enable_account_state", stack)
            /\ UNCHANGED <<job, key, queries>>

\* enable_account that enables the account whatever its state
MustAlwaysEnable(account) == TRUE

\* enable_account(): whether the account has to be enabled
MustEnable(account) == Lower(account.state) # "enabled"

\* enable_account(): the account is enabled unless it is
enable_account_state ==
    /\ pc = "enable_account_state"
    /\ status = "running"
    /\ Frame
    /\ \E answer \in Answers :
        IF cur = NoneD THEN Return(Raise(Ctx, "TypeError"), result.changed, cur, remote)
        ELSE IF ~MustEnable(cur) THEN Return(Ctx, result.changed, cur, remote)
        ELSE \E c1 \in {get_domain(Ctx, "id")} :
             \E c2 \in {Call(c1, [api |-> "enableAccount", id |-> cur.id,
                                  account |-> P("name"), domainid |-> c1.ret])},
                r \in {ApplyEffect(remote, [op |-> "enableAccount", id |-> cur.id])} :
             IF c1.status # "running" \/ check_mode
             THEN Return(c1, TRUE, cur, remote)
             ELSE IF answer = "error" \/ ~Applicable(remote, [op |-> "enableAccount",
                                                              id |-> cur.id])
             THEN Return(fail_json(c2, Failed(ErrorText)), TRUE, cur, remote)
             ELSE Return(c2, TRUE, ById(r.accounts, cur.id), r)

\* lock_or_disable_account(lock): the account is looked up, and created if it
\* is not there
lock_or_disable_account ==
    /\ pc = "lock_or_disable_account"
    /\ status = "running"
    /\ Frame
    /\ \E c1 \in {account_get_account(Ctx)} :
       IF c1.status # "running"
       THEN Return(c1, result.changed, cur, remote)
       ELSE IF c1.ret = NoneD
       THEN CallMethod(c1, NoneD, "present_account", "lock_or_disable_account_enable")
       ELSE /\ Step(c1, result.changed, c1.ret, remote,
                    "lock_or_disable_account_enable", stack)
            /\ UNCHANGED <<job, key, queries>>

\* lock_or_disable_account that never enables the account first
NeverEnableToLock(lock, account) == FALSE

\* lock_or_disable_account(lock): whether the account is enabled first
MustEnableToLock(lock, account) == lock /\ Lower(account.state) = "disabled"

\* lock_or_disable_account(lock): a disabled account is enabled to lock it
lock_or_disable_account_enable ==
    /\ pc = "lock_or_disable_account_enable"
    /\ status = "running"
    /\ Frame
    /\ IF Lock /\ cur = NoneD
       THEN Return(Raise(Ctx, "TypeError"), result.changed, cur, remote)
       ELSE IF cur # NoneD /\ MustEnableToLock(Lock, cur)
       THEN CallMethod(Ctx, cur, "enable_account", "lock_or_disable_account_disable")
       ELSE /\ Step(Ctx, result.changed, cur, remote,
                    "lock_or_disable_account_disable", stack)
            /\ UNCHANGED <<job, key, queries>>

\* lock_or_disable_account that takes every account for disabled or locked
NeverDisable(lock, account) == FALSE

\* lock_or_disable_account(lock): whether the account has to be disabled or locked
MustDisable(lock, account) ==
    \/ lock /\ Lower(account.state) # "locked"
    \/ ~lock /\ Lower(account.state) # "disabled"

\* lock_or_disable_account(lock): the account is disabled or locked unless it is
lock_or_disable_account_disable ==
    /\ pc = "lock_or_disable_account_disable"
    /\ status = "running"
    /\ Frame
    /\ \E answer \in Answers :
        IF cur = NoneD THEN Return(Raise(Ctx, "TypeError"), result.changed, cur, remote)
        ELSE IF ~MustDisable(Lock, cur) THEN Return(Ctx, result.changed, cur, remote)
        ELSE \E c1 \in {get_domain(Ctx, "id")} :
             \E c2 \in {Call(c1, [api |-> "disableAccount", id |-> cur.id,
                                  account |-> P("name"), domainid |-> c1.ret,
                                  lock |-> Lock])},
                jobid \in {Len(remote.jobs) + 1},
                r \in {[remote EXCEPT !.jobs =
                          Append(@, NewJob([op |-> "disableAccount", id |-> cur.id,
                                            lock |-> Lock]))]} :
             IF c1.status # "running" \/ check_mode
             THEN Return(c1, TRUE, cur, remote)
             ELSE IF answer = "error"
             THEN Return(fail_json(c2, Failed(ErrorText)), TRUE, ErrorResponse, remote)
             ELSE IF P("poll_async")
             THEN CallPoll(c2, TRUE, [jobid |-> jobid], r, [jobid |-> jobid],
                           "account", "lock_or_disable_account_return")
             ELSE Return(c2, TRUE, [jobid |-> jobid], r)

\* lock_or_disable_account(lock): account = self.poll_job(account, 'account')
lock_or_disable_account_return ==
    /\ pc = "lock_or_disable_account_return"
    /\ status = "running"
    /\ Frame
    /\ Return(Ctx, result.changed, job, remote)

\* absent_account()
absent_account ==
    /\ pc = "absent_account"
    /\ status = "running"
    /\ Frame
    /\ \E answer \in Answers :
        \E c1 \in {account_get_account(Ctx)} :
        IF c1.status # "running" THEN Return(c1, result.changed, cur, remote)
        ELSE IF c1.ret = NoneD THEN Return(c1, result.changed, NoneD, remote)
        ELSE \E account \in {c1.ret} :
             \E c2 \in {Call(c1, [api |-> "deleteAccount", id |-> account.id])},
                jobid \in {Len(remote.jobs) + 1},
                r \in {[remote EXCEPT !.jobs =
                          Append(@, NewJob([op |-> "deleteAccount",
                                            id |-> account.id]))]} :
             IF check_mode THEN Return(c1, TRUE, account, remote)
             ELSE IF answer = "error"
             THEN Return(fail_json(c2, Failed(ErrorText)), TRUE, account, remote)
             ELSE IF P("poll_async")
             THEN CallPoll(c2, TRUE, account, r, [jobid |-> jobid], "account",
                           "absent_account_return")
             ELSE Return(c2, TRUE, account, r)

\* absent_account(): the value of poll_job is dropped, the account is returned
absent_account_return ==
    /\ pc = "absent_account_return"
    /\ status = "running"
    /\ Frame
    /\ Return(Ctx, result.changed, cur, remote)

-----------------------------------------------------------------------------
(* AnsibleCloudStack.has_changed.  The values of the dictionaries it       *)
(* compares carry their Python type: t is str, int or none, v the value,   *)
(* an integer held as its decimal numeral.                                 *)

\* a string, or None, as a typed value
Str(x) == IF x = None THEN [t |-> "none", v |-> None] ELSE [t |-> "str", v |-> x]

\* the decimal numerals of the integers in use
Numerals == <<"1", "2", "3">>

\* an integer as a typed value
Int_(n) == [t |-> "int", v |-> IF n = 0 THEN "0" ELSE Numerals[n]]

\* a dictionary of strings as a dictionary of typed values
Typed(d) == [k \in DOMAIN d |-> Str(d[k])]

\* has_changed with no key to compare case sensitive
no_case_sensitive_keys == {}

\* the keys has_changed compares case sensitive
case_sensitive_keys == {"id", "displaytext", "displayname", "description"}

\* the digits int() reads
Digits == ("0" :> 0) @@ ("1" :> 1) @@ ("2" :> 2) @@ ("3" :> 3)

\* int(x) of a current value
ToInt(x) == IF x.t = "int" THEN x ELSE Int_(Digits[x.v])

\* has_changed: the current value as it is compared with the wanted value
Coerced(want, current) == IF want.t = "int" THEN ToInt(current) ELSE current

\* has_changed with every key compared case sensitive
DiffersExactly(k, want, current) ==
    IF want.t = "int" THEN want.v # ToInt(current).v ELSE want # current

\* has_changed that lowers the current value only
DiffersFromLower(k, want, current) ==
    IF want.t = "int" THEN want.v # ToInt(current).v
    ELSE IF k \in case_sensitive_keys THEN want # current
    ELSE want.v # Lower(current.v)

\* has_changed: whether the wanted value of key k differs from the current one
Differs(k, want, current) ==
    IF want.t = "int" THEN want.v # ToInt(current).v
    ELSE IF k \in case_sensitive_keys THEN want # current
    ELSE Lower(want.v) # Lower(current.v)

\* has_changed: the keys that are compared
ComparedKeys(want_dict, only_keys) ==
    {k \in DOMAIN want_dict :
        /\ (only_keys = {} \/ k \in only_keys)
        /\ want_dict[k].t # "none"}

\* the keys of the wanted dictionaries in the order iteritems() yields them,
\* that of their places in the hash table of the dictionary, id after the
\* keys whose place it would share; the order shows when the comparison of a
\* key raises
DictOrder ==
    <<"clustername", "hypervisor", "clustertype", "allocationstate",
      "displaytext", "id", "size">>

\* has_changed: the turn of the loop for the key k.  d holds the value to
\* return, what is written to result['diff'], the current dictionary and the
\* exception raised, None as long as there is none
has_changed_key(d, k, want_dict, only_keys) ==
    IF \/ d.raised # None
       \/ k \notin ComparedKeys(want_dict, only_keys)
    THEN d
    ELSE IF k \notin DOMAIN d.current
    THEN [d EXCEPT !.changed = TRUE,
                   !.before = (k :> None) @@ @,
                   !.after = (k :> want_dict[k].v) @@ @]
    ELSE IF want_dict[k].t = "int" /\ d.current[k].t = "none"
    THEN [d EXCEPT !.raised = "TypeError"]
    ELSE IF /\ want_dict[k].t = "int"
            /\ d.current[k].t = "str"
            /\ d.current[k].v \notin DOMAIN Digits
    THEN [d EXCEPT !.raised = "ValueError"]
    ELSE IF want_dict[k].t = "str" /\ d.current[k].t # "str"
    THEN [d EXCEPT !.raised = "AttributeError"]
    ELSE On([d EXCEPT !.current[k] = Coerced(want_dict[k], @)], LAMBDA e :
         IF Differs(k, want_dict[k], e.current[k])
         THEN [e EXCEPT !.changed = TRUE,
                        !.before = (k :> e.current[k].v) @@ @,
                        !.after = (k :> want_dict[k].v) @@ @]
         ELSE e)

\* has_changed: the turns of the loop for the keys ks, in their order
RECURSIVE has_changed_loop(_, _, _, _)
has_changed_loop(d, ks, want_dict, only_keys) ==
    IF ks = << >> THEN d
    ELSE has_changed_loop(has_changed_key(d, Head(ks), want_dict, only_keys),
                          Tail(ks), want_dict, only_keys)

\* has_changed(want_dict, current_dict, only_keys): the value returned, what
\* it adds to result['diff'], the current dictionary after it, and the
\* exception that ends it, if one does
has_changed(want_dict, current_dict, only_keys) ==
    has_changed_loop([changed |-> FALSE, before |-> << >>, after |-> << >>,
                      current |-> current_dict, raised |-> None],
                     SelectSeq(DictOrder, LAMBDA k : k \in DOMAIN want_dict),
                     want_dict, only_keys)

\* has_changed(want_dict, current_dict) is called on the dictionary cur: the
\* diff is recorded key by key, and the values compared as numbers are
\* numbers after it; an exception ends the run with what was recorded so far
call_has_changed ==
    /\ pc = "has_changed"
    /\ status = "running"
    /\ Frame
    /\ UNCHANGED <<job, key, queries, remote, self, calls>>
    /\ \E diff \in {has_changed(params.want, cur, {})} :
        /\ cur' = diff.current
        /\ IF diff.raised # None
           THEN /\ status' = "crashed"
                /\ msg' = diff.raised
                /\ pc' = "done"
                /\ stack' = << >>
                /\ result' = [result EXCEPT !.before = diff.before,
                                            !.after = diff.after]
           ELSE /\ result' = [result EXCEPT !.changed = diff.changed,
                                            !.before = diff.before,
                                            !.after = diff.after]
                /\ pc' = Head(stack)
                /\ stack' = Tail(stack)
                /\ UNCHANGED <<status, msg>>

\* the values recorded as after are written into the current dictionary of
\* the platform, each with the type of the wanted value
apply_after ==
    /\ pc = "done"
    /\ module = "diff"
    /\ status = "ok"
    /\ result.changed
    /\ remote' = [remote EXCEPT !.current =
                     [k \in DOMAIN result.after |-> params.want[k]] @@ @]
    /\ \E k \in DOMAIN result.after :
          IF k \notin DOMAIN remote.current THEN TRUE
          ELSE IF remote.current[k].t # params.want[k].t THEN TRUE
          ELSE remote.current[k].v # params.want[k].v
    /\ UNCHANGED <<module, argv, params, environ, check_mode, self, result, pc, stack,
                   cur, job, key, status, msg, calls, queries, run, begin, prev>>

\* get_os_type(key) is called, after get_zone(key='id') if the zone is to be
\* resolved first; the value returned is kept as first
call_get_os_type ==
    /\ pc = "get_os_type"
    /\ status = "running"
    /\ Frame
    /\ UNCHANGED <<job, key, queries>>
    /\ \E c0 \in {IF params.zone_first THEN get_zone(Ctx, "id") ELSE Ctx} :
       \E c1 \in {get_os_type(c0, params.key)} :
       Step(c1, result.changed,
            IF c1.status = "running" THEN [first |-> c1.ret] ELSE NoneD,
            remote, "get_os_type_again", stack)

\* get_os_type(key) is called again with the same key; the value returned is
\* kept as second
call_get_os_type_again ==
    /\ pc = "get_os_type_again"
    /\ status = "running"
    /\ Frame
    /\ \E c1 \in {get_os_type(Ctx, params.key)} :
       Return(c1, result.changed,
              IF c1.status = "running" THEN [second |-> c1.ret] @@ cur ELSE cur,
              remote)

\* get_hypervisor() is called, and called again; the values returned are
\* kept as first and second
call_get_hypervisor ==
    /\ pc \in {"get_hypervisor", "get_hypervisor_again"}
    /\ status = "running"
    /\ Frame
    /\ \E c1 \in {get_hypervisor(Ctx)} :
        IF pc = "get_hypervisor"
        THEN /\ Step(c1, result.changed,
                     IF c1.status = "running" THEN [first |-> c1.ret] ELSE NoneD,
                     remote, "get_hypervisor_again", stack)
             /\ UNCHANGED <<job, key, queries>>
        ELSE Return(c1, result.changed,
                    IF c1.status = "running" THEN [second |-> c1.ret] @@ cur ELSE cur,
                    remote)

-----------------------------------------------------------------------------
(* cs_cluster: AnsibleCloudStackCluster *)

\* _get_common_cluster_args()
get_common_cluster_args ==
    [clustername |-> P("name"), hypervisor |-> P("hypervisor"),
     clustertype |-> P("cluster_type")]
    @@ (IF P("state") \in {"enabled", "disabled"}
        THEN [allocationstate |-> Capitalize(P("state"))] ELSE << >>)

\* get_cluster(): the cluster found by name, the keys hypervisor and
\* clustername set to its hypervisortype and its name, whatever it held under
\* them; the second is not set when the first cannot be
FoundCluster(x) ==
    (IF "hypervisortype" \in DOMAIN x
     THEN [hypervisor |-> x.hypervisortype]
          @@ (IF "name" \in DOMAIN x THEN [clustername |-> x.name] ELSE << >>)
     ELSE << >>)
    @@ x

\* get_cluster(): by the option id if the module has it and a cluster has
\* the id, that cluster as it is listed; else by the name, and by the id too
\* if it was given.  The cluster found by name is kept before its keys are
\* set, so a cluster without hypervisortype or name is kept when the
\* KeyError is raised
get_cluster(c0) ==
    On(c0, LAMBDA c :
    IF c.status # "running" THEN c
    ELSE IF c.self.cluster # NoneD THEN Ret(c, c.self.cluster)
    ELSE LET uuid == P("id")
             byid == listClusters(uuid, None)
             clusters == listClusters(uuid, P("name"))
         IN
         IF uuid # None /\ Len(byid) > 0
         THEN On(Call(c, [api |-> "listClusters", id |-> uuid]), LAMBDA c1 :
              Ret([c1 EXCEPT !.self.cluster = byid[1]], byid[1]))
         ELSE On(IF uuid # None THEN Call(c, [api |-> "listClusters", id |-> uuid])
                 ELSE c, LAMBDA c1 :
              On(Call(c1, [api |-> "listClusters", name |-> P("name")]
                          @@ (IF uuid # None THEN [id |-> uuid] ELSE << >>)),
                 LAMBDA c2 :
              IF Len(clusters) = 0 THEN Ret(c2, NoneD)
              ELSE On([c2 EXCEPT !.self.cluster = FoundCluster(clusters[1])],
                      LAMBDA c3 :
                   IF {"hypervisortype", "name"} \subseteq DOMAIN clusters[1]
                   THEN Ret(c3, c3.self.cluster)
                   ELSE Ret(Raise(c3, "KeyError"), NoneD)))))

\* get_pod(key)
get_pod(c0, k) ==
    On(get_zone(c0, "id"), LAMBDA c1 :
    IF c1.status # "running" THEN c1
    ELSE LET pods == listPods(P("pod"), c1.ret) IN
         On(Call(c1, [api |-> "listPods", name |-> P("pod"), zoneid |-> c1.ret]),
            LAMBDA c2 :
         IF Len(pods) > 0 THEN get_by_key(c2, k, pods[1])
         ELSE On(get_zone(c2, "name"), LAMBDA c3 :
              IF c3.status # "running" THEN c3
              ELSE fail_json(c3, "Pod " \o P("pod") \o " not found in zone "
                                 \o c3.ret \o "."))))

\* present_cluster(): the cluster is updated if it is there, created if not
present_cluster ==
    /\ pc = "present_cluster"
    /\ status = "running"
    /\ Frame
    /\ UNCHANGED <<job, key, queries>>
    /\ \E c1 \in {get_cluster(Ctx)} :
       Step(c1, result.changed, c1.ret, remote,
            IF c1.ret # NoneD THEN "update_cluster" ELSE "create_cluster", stack)

\* the parameters _create_cluster requires
RequiredClusterParams == <<"cluster_type", "hypervisor">>

\* the cluster addCluster makes of its arguments
NewCluster(args) ==
    [id |-> "c-" \o args.clustername, name |-> args.clustername,
     hypervisortype |-> args.hypervisor, clustertype |-> args.clustertype,
     allocationstate |-> IF "allocationstate" \in DOMAIN args
                         THEN args.allocationstate ELSE "Enabled",
     zoneid |-> args.zoneid, podid |-> args.podid, managedstate |-> "Managed",
     cpuovercommitratio |-> "1.0", memoryovercommitratio |-> "1.0"]

\* _create_cluster()
create_cluster ==
    /\ pc = "create_cluster"
    /\ status = "running"
    /\ Frame
    /\ \E answer \in Answers,
          c1 \in {get_zone(fail_on_missing_params(Ctx, RequiredClusterParams), "id")} :
       \E c2 \in {get_pod(c1, "id")} :
       \E args \in {get_common_cluster_args @@ [zoneid |-> c1.ret, podid |-> c2.ret]} :
       \E c3 \in {Call(c2, [api |-> "addCluster", args |-> args])} :
        IF c2.status # "running" THEN Return(c2, result.changed, NoneD, remote)
        ELSE IF check_mode THEN Return(c2, TRUE, NoneD, remote)
        ELSE IF answer = "error"
        THEN Return(fail_json(c3, Failed(ErrorText)), TRUE, NoneD, remote)
        ELSE Return(c3, TRUE, NewCluster(args),
                    ApplyEffect(remote, [op |-> "addCluster",
                                         cluster |-> NewCluster(args)]))

\* the cluster updateCluster makes of a cluster and its arguments
UpdatedCluster(x, args) ==
    [x EXCEPT
        !.name = IF args.clustername # None THEN args.clustername ELSE @,
        !.hypervisortype = IF args.hypervisor # None THEN args.hypervisor ELSE @,
        !.clustertype = IF args.clustertype # None THEN args.clustertype ELSE @,
        !.allocationstate = IF "allocationstate" \in DOMAIN args
                            THEN args.allocationstate ELSE @]

\* _update_cluster()
update_cluster ==
    /\ pc = "update_cluster"
    /\ status = "running"
    /\ Frame
    /\ \E answer \in Answers, c1 \in {get_cluster(Ctx)} :
       \E cluster \in {c1.ret} :
       \E args \in {get_common_cluster_args @@ [id |-> cluster.id]} :
       \E diff \in {has_changed(Typed(args), Typed(cluster), {})},
          c2 \in {Call(c1, [api |-> "updateCluster", args |-> args])},
          eff \in {[op |-> "updateCluster", id |-> cluster.id,
                    cluster |-> UpdatedCluster(ById(remote.clusters, cluster.id),
                                               args)]} :
        /\ UNCHANGED <<job, key, queries>>
        /\ self' = c1.self
        /\ result' = [result EXCEPT
                         !.changed = IF diff.raised # None THEN @
                                     ELSE @ \/ diff.changed,
                         !.before = diff.before @@ @,
                         !.after = diff.after @@ @]
        /\ IF diff.raised # None
           THEN /\ calls' = c1.calls
                /\ status' = "crashed"
                /\ msg' = diff.raised
                /\ UNCHANGED <<remote, cur>>
                /\ pc' = "done"
                /\ stack' = << >>
           ELSE IF ~diff.changed \/ check_mode
           THEN /\ calls' = c1.calls
                /\ UNCHANGED <<status, msg, remote>>
                /\ cur' = cluster
                /\ pc' = Head(stack)
                /\ stack' = Tail(stack)
           ELSE IF answer = "error" \/ ~Applicable(remote, eff)
           THEN /\ calls' = c2.calls
                /\ status' = "failed"
                /\ msg' = Failed(ErrorText)
                /\ UNCHANGED <<remote, cur>>
                /\ pc' = "done"
                /\ stack' = << >>
           ELSE /\ calls' = c2.calls
                /\ UNCHANGED <<status, msg>>
                /\ remote' = ApplyEffect(remote, eff)
                /\ cur' = eff.cluster
                /\ pc' = Head(stack)
                /\ stack' = Tail(stack)

\* absent_cluster()
absent_cluster ==
    /\ pc = "absent_cluster"
    /\ status = "running"
    /\ Frame
    /\ \E answer \in Answers, c1 \in {get_cluster(Ctx)} :
        IF c1.ret = NoneD THEN Return(c1, result.changed, NoneD, remote)
        ELSE \E cluster \in {c1.ret} :
             \E c2 \in {Call(c1, [api |-> "deleteCluster", id |-> cluster.id])},
                eff \in {[op |-> "deleteCluster", id |-> cluster.id]} :
             IF check_mode THEN Return(c1, TRUE, cluster, remote)
             ELSE IF answer = "error" \/ ~Applicable(remote, eff)
             THEN Return(fail_json(c2, Failed(ErrorText)), TRUE, cluster, remote)
             ELSE Return(c2, TRUE, cluster, ApplyEffect(remote, eff))

-----------------------------------------------------------------------------
(* AnsibleCloudStack: the lookups of cs_nic.py *)

\* whether v is one of the names or the id of a dictionary with displaytext
NamedExactly(v, d) == v \in {d.displaytext, d.name, d.id}

\* get_vpc(key), as cs_nic.py has it
get_vpc(c0, k) ==
    On(c0, LAMBDA c :
    IF c.status # "running" THEN c
    ELSE IF c.self.vpc # NoneD THEN get_by_key(c, k, c.self.vpc)
    ELSE IF P("vpc") = None THEN Ret(c, None)
    ELSE On(get_account(c, "name"), LAMBDA c1 :
         On(get_domain(c1, "id"), LAMBDA c2 :
         On(get_project(c2, "id"), LAMBDA c3 :
         On(get_zone(c3, "id"), LAMBDA c4 :
         IF c4.status # "running" THEN c4
         ELSE LET vpcs == listVPCs(c1.ret, c2.ret, c3.ret)
                  hits == {i \in 1..Len(vpcs) : NamedExactly(P("vpc"), vpcs[i])}
              IN
              On(Call(c4, [api |-> "listVPCs", account |-> c1.ret,
                           domainid |-> c2.ret, projectid |-> c3.ret]), LAMBDA c5 :
              IF Len(vpcs) = 0 THEN fail_json(c5, "No VPCs available.")
              ELSE IF hits # {}
              THEN get_by_key([c5 EXCEPT !.self.vpc = vpcs[Min(hits)]],
                              k, vpcs[Min(hits)])
              ELSE fail_json(c5, "VPC '" \o P("vpc") \o "' not found")))))))

\* get_network(key) for the network named network, as cs_nic.py has it
get_network(c0, k, network) ==
    On(c0, LAMBDA c :
    IF c.status # "running" THEN c
    ELSE IF c.self.network # NoneD THEN get_by_key(c, k, c.self.network)
    ELSE IF network = None THEN Ret(c, None)
    ELSE On(get_account(c, "name"), LAMBDA c1 :
         On(get_domain(c1, "id"), LAMBDA c2 :
         On(get_project(c2, "id"), LAMBDA c3 :
         On(get_vpc(get_zone(c3, "id"), "id"), LAMBDA c5 :
         IF c5.status # "running" THEN c5
         ELSE LET networks == listNetworks(c1.ret, c2.ret, c3.ret, c5.ret)
                  hits == {i \in 1..Len(networks) : NamedExactly(network, networks[i])}
              IN
              On(Call(c5, [api |-> "listNetworks", account |-> c1.ret,
                           domainid |-> c2.ret, projectid |-> c3.ret,
                           vpcid |-> c5.ret]), LAMBDA c6 :
              IF Len(networks) = 0 THEN fail_json(c6, "No networks available.")
              ELSE IF hits # {}
              THEN get_by_key([c6 EXCEPT !.self.network = networks[Min(hits)]],
                              k, networks[Min(hits)])
              ELSE fail_json(c6, "Network '" \o network \o "' not found")))))))

\* a virtual machine matched by its names letter for letter
VmNamedExactly(vm, v) == vm \in {v.name, v.displayname, v.id}

\* whether a virtual machine goes by the name or id vm
VmNamed(vm, v) == Lower(vm) \in {Lower(v.name), Lower(v.displayname), v.id}

\* get_vm(key), as cs_nic.py has it
get_vm(c0, k) ==
    On(c0, LAMBDA c :
    IF c.status # "running" THEN c
    ELSE IF c.self.vm # NoneD THEN get_by_key(c, k, c.self.vm)
    ELSE IF P("vm") = None
    THEN fail_json(c, "Virtual machine param 'vm' is required")
    ELSE On(get_account(c, "name"), LAMBDA c1 :
         On(get_domain(c1, "id"), LAMBDA c2 :
         On(get_project(c2, "id"), LAMBDA c3 :
         On(get_vpc(get_zone(c3, "id"), "id"), LAMBDA c5 :
         IF c5.status # "running" THEN c5
         ELSE LET vms == listVirtualMachines(c1.ret, c2.ret, c3.ret, c5.ret)
                  hits == {i \in 1..Len(vms) : VmNamed(P("vm"), vms[i])}
              IN
              On(Call(c5, [api |-> "listVirtualMachines", account |-> c1.ret,
                           domainid |-> c2.ret, projectid |-> c3.ret,
                           vpcid |-> c5.ret]), LAMBDA c6 :
              IF hits # {}
              THEN get_by_key([c6 EXCEPT !.self.vm = vms[Min(hits)]], k, vms[Min(hits)])
              ELSE fail_json(c6, "Virtual machine '" \o P("vm") \o "' not found")))))))

-----------------------------------------------------------------------------
(* cs_nic: AnsibleCloudStackNic *)

\* get_nic(); the network is sent under the key networkdid, which the
\* platform does not know
get_nic(c0) ==
    On(c0, LAMBDA c :
    IF c.status # "running" THEN c
    ELSE IF c.self.nic # NoneD THEN Ret(c, c.self.nic)
    ELSE On(get_vm(c, "id"), LAMBDA c1 :
         On(get_network(c1, "id", P("network")), LAMBDA c2 :
         IF c2.status # "running" THEN c2
         ELSE LET nics == listNics(c1.ret, None) IN
              On(Call(c2, [api |-> "listNics", virtualmachineid |-> c1.ret,
                           networkdid |-> c2.ret]), LAMBDA c3 :
              IF Len(nics) > 0
              THEN Ret([c3 EXCEPT !.self.nic = nics[1]], nics[1])
              ELSE Raise(c3, "TypeError")))))

\* get_secondary_ip that finds no address
no_secondary_ip(c, nic) == NoneD

\* get_secondary_ip that takes any address of the NIC for the one asked for
any_secondary_ip(c, nic) ==
    IF "secondaryip" \in DOMAIN nic /\ Len(nic.secondaryip) > 0
    THEN nic.secondaryip[1] ELSE NoneD

\* get_secondary_ip() on the NIC nic: the entry of the address, or None
get_secondary_ip(c, nic) ==
    LET ips == IF "secondaryip" \in DOMAIN nic THEN nic.secondaryip ELSE << >>
        hits == {i \in 1..Len(ips) : ips[i].ipaddress = c.self.vm_guest_ip}
    IN
    IF c.self.vm_guest_ip # None /\ hits # {} THEN ips[Min(hits)] ELSE NoneD

\* the address the platform gives a NIC when none is asked for
FreeAddress(nic) == "10.0.1." \o ToString(Len(nic.secondaryip) + 1)

\* the secondary address addIpToNic makes
NewSecondaryIp(nic, address) ==
    LET a == IF address = None THEN FreeAddress(nic) ELSE address IN
    [id |-> "ip-" \o a, ipaddress |-> a, nicid |-> nic.id, networkid |-> nic.networkid]

\* present_nic(): nic = self.get_nic()
present_nic ==
    /\ pc = "present_nic"
    /\ status = "running"
    /\ Frame
    /\ \E c1 \in {get_nic(Ctx)} :
        IF c1.status # "running" THEN Return(c1, result.changed, cur, remote)
        ELSE /\ Step(c1, result.changed, c1.ret, remote, "present_nic_add", stack)
             /\ UNCHANGED <<job, key, queries>>

\* present_nic(): the address is added unless the NIC looked up has it; the
\* platform takes the call as it is when the call arrives
present_nic_add ==
    /\ pc = "present_nic_add"
    /\ status = "running"
    /\ Frame
    /\ \E answer \in Answers, c1 \in {Ctx}, nic \in {cur} :
        \E c2 \in {Call(c1, [api |-> "addIpToNic", nicid |-> nic.id,
                             ipaddress |-> c1.self.vm_guest_ip])},
           jobid \in {Len(remote.jobs) + 1},
           r \in {[remote EXCEPT !.jobs =
                     Append(@, NewJob([op |-> "addIpToNic", nicid |-> nic.id,
                                       ip |-> NewSecondaryIp(
                                                 ById(remote.nics, nic.id),
                                                 c1.self.vm_guest_ip)]))]} :
        IF get_secondary_ip(c1, nic) # NoneD
        THEN Return(c1, result.changed, nic, remote)
        ELSE IF check_mode THEN Return(c1, TRUE, nic, remote)
        ELSE IF answer = "error"
        THEN Return(fail_json(c2, Failed(ErrorText)), TRUE, nic, remote)
        ELSE IF P("poll_async")
        THEN CallPoll(c2, TRUE, nic, r, [jobid |-> jobid], "nicsecondaryip",
                      "present_nic_return")
        ELSE Return(c2, TRUE, nic, r)

\* present_nic(): nic = self.poll_job(res, 'nicsecondaryip') and the address
\* of it is kept for the result
present_nic_return ==
    /\ pc = "present_nic_return"
    /\ status = "running"
    /\ Frame
    /\ IF "ipaddress" \in DOMAIN job
       THEN Return([Ctx EXCEPT !.self.vm_guest_ip = job.ipaddress],
                   result.changed, job, remote)
       ELSE Return(Raise(Ctx, "KeyError"), result.changed, job, remote)

\* absent_nic(): nic = self.get_nic()
absent_nic ==
    /\ pc = "absent_nic"
    /\ status = "running"
    /\ Frame
    /\ \E c1 \in {get_nic(Ctx)} :
        IF c1.status # "running" THEN Return(c1, result.changed, cur, remote)
        ELSE /\ Step(c1, result.changed, c1.ret, remote, "absent_nic_remove", stack)
             /\ UNCHANGED <<job, key, queries>>

\* absent_nic(): the address is removed if the NIC looked up has it; the
\* error text of a refused call is read from the NIC
absent_nic_remove ==
    /\ pc = "absent_nic_remove"
    /\ status = "running"
    /\ Frame
    /\ \E answer \in Answers, c1 \in {Ctx}, nic \in {cur} :
        \E secondary_ip \in {get_secondary_ip(c1, nic)} :
        IF secondary_ip = NoneD THEN Return(c1, result.changed, nic, remote)
        ELSE \E c2 \in {Call(c1, [api |-> "removeIpFromNic",
                                  id |-> secondary_ip.id])},
                jobid \in {Len(remote.jobs) + 1},
                r \in {[remote EXCEPT !.jobs =
                          Append(@, NewJob([op |-> "removeIpFromNic",
                                            id |-> secondary_ip.id]))]} :
             IF check_mode THEN Return(c1, TRUE, nic, remote)
             ELSE IF answer = "error"
             THEN Return(IF "errortext" \in DOMAIN nic
                         THEN fail_json(c2, Failed(nic.errortext))
                         ELSE Raise(c2, "KeyError"), TRUE, nic, remote)
             ELSE IF P("poll_async")
             THEN CallPoll(c2, TRUE, nic, r, [jobid |-> jobid], "nicsecondaryip",
                           "absent_nic_return")
             ELSE Return(c2, TRUE, nic, r)

\* absent_nic(): the value of poll_job is dropped, the NIC is returned
absent_nic_return ==
    /\ pc = "absent_nic_return"
    /\ status = "running"
    /\ Frame
    /\ Return(Ctx, result.changed, cur, remote)

\* get_result(nic): the network that is reported, that of the NIC if the
\* option is not given
ResultNetwork(nic) ==
    IF nic # NoneD /\ P("network") = None
    THEN (IF "networkid" \in DOMAIN nic THEN nic.networkid ELSE None)
    ELSE P("network")

\* AnsibleCloudStackNic.get_result(nic) and module.exit_json(**result); the
\* network of the NIC is written to module.params if the option is not given.
\* The keys of the base class are written first, then one key after each
\* lookup; a lookup that fails leaves what was written before it
nic_get_result ==
    /\ pc = "nic_get_result"
    /\ status = "running"
    /\ params' = [params EXCEPT !.network = ResultNetwork(cur)]
    /\ UNCHANGED <<module, argv, environ, check_mode, run, begin, prev>>
    /\ UNCHANGED <<job, key, queries, remote, cur, stack>>
    /\ \E c1 \in {get_network(Ctx, "name", ResultNetwork(cur))} :
       \E c2 \in {get_vm(c1, "name")} :
       \E c3 \in {get_domain(c2, "path")} :
       \E c4 \in {get_account(c3, "name")} :
       \E c5 \in {get_project(c4, "name")} :
       /\ self' = c5.self
       /\ calls' = c5.calls
       /\ msg' = c5.msg
       /\ pc' = "done"
       /\ status' = IF c5.status = "running" THEN "ok" ELSE c5.status
       /\ result' = [result EXCEPT !.out =
                       (IF c5.status = "running" THEN [project |-> c5.ret] ELSE << >>)
                       @@ (IF c4.status = "running" THEN [account |-> c4.ret] ELSE << >>)
                       @@ (IF c3.status = "running" THEN [domain |-> c3.ret] ELSE << >>)
                       @@ (IF c2.status = "running"
                           THEN [vm |-> c2.ret, vm_guest_ip |-> self.vm_guest_ip]
                           ELSE << >>)
                       @@ (IF c1.status = "running" THEN [network |-> c1.ret] ELSE << >>)
                       @@ ResultOf(module, cur)]

-----------------------------------------------------------------------------
(* cs_instance_facts: AnsibleCloudStackInstanceFacts *)

\* get_instance()
get_instance(c0) ==
    On(get_account(c0, "name"), LAMBDA c1 :
    On(get_domain(c1, "id"), LAMBDA c2 :
    On(get_project(c2, "id"), LAMBDA c3 :
    IF c3.status # "running" THEN c3
    ELSE LET instances == listVirtualMachines(c1.ret, c2.ret, c3.ret, None)
             hits == {i \in 1..Len(instances) : VmNamed(P("name"), instances[i])}
         IN
         On(Call(c3, [api |-> "listVirtualMachines", account |-> c1.ret,
                      domainid |-> c2.ret, projectid |-> c3.ret]), LAMBDA c4 :
         IF hits # {} THEN Ret(c4, instances[Min(hits)]) ELSE Ret(c4, NoneD)))))

\* run(): the instance is looked up; the run fails if it is not found
facts_run ==
    /\ pc = "facts_run"
    /\ status = "running"
    /\ Frame
    /\ UNCHANGED <<job, key, queries>>
    /\ \E c1 \in {get_instance(Ctx)} :
       IF c1.status = "running" /\ c1.ret = NoneD
       THEN Step(fail_json(c1, "Instance not found: " \o P("name")), FALSE, NoneD,
                 remote, "done", << >>)
       ELSE Step(c1, FALSE, IF c1.status = "running" THEN c1.ret ELSE NoneD,
                 remote, "get_result", << >>)

-----------------------------------------------------------------------------
(* AnsibleCloudStack: the tags of a resource *)

\* the option tags: the list, or None
TagsGiven == P("tags") # NoneD

\* get_tags(resource)
get_tags(resource) ==
    IF "tags" \in DOMAIN resource
    THEN [i \in 1..Len(resource.tags) |->
             [key |-> resource.tags[i].key, value |-> resource.tags[i].value]]
    ELSE << >>

\* the tags to create taken to be all the wanted tags
all_tags_should_exist_or_be_updated(resource, tags) == tags

\* _tags_that_should_exist_or_be_updated(resource, tags)
tags_that_should_exist_or_be_updated(resource, tags) ==
    SelectSeq(tags, LAMBDA t : t \notin Range(get_tags(resource)))

\* _tags_that_should_not_exist(resource, tags)
tags_that_should_not_exist(resource, tags) ==
    SelectSeq(get_tags(resource), LAMBDA t : t \notin Range(tags))

\* _process_tags(resource, resource_type, tags, operation) and the block that
\* follows it at back: the batch is sent in one call and its job is polled
process_tags(tags, operation, back) ==
    \E answer \in Answers,
       c1 \in {Call(Ctx, [api |-> operation, resourceids |-> cur.id,
                          resourcetype |-> P("resource_type"), tags |-> tags])},
       jobid \in {Len(remote.jobs) + 1},
       r \in {[remote EXCEPT !.jobs =
                 Append(@, NewJob([op |-> operation, tags |-> tags]))]} :
        IF tags = << >>
        THEN /\ Step(Ctx, result.changed, cur, remote, back, stack)
             /\ UNCHANGED <<job, key, queries>>
        ELSE IF check_mode
        THEN /\ Step(Ctx, TRUE, cur, remote, back, stack)
             /\ UNCHANGED <<job, key, queries>>
        ELSE IF answer = "error"
        THEN CallPoll(c1, TRUE, cur, remote, ErrorResponse, None, back)
        ELSE CallPoll(c1, TRUE, cur, r, [jobid |-> jobid], None, back)

\* ensure_tags(resource, resource_type): the tags that should not exist are
\* deleted
ensure_tags ==
    /\ pc = "ensure_tags"
    /\ status = "running"
    /\ Frame
    /\ IF P("resource_type") = None \/ cur = NoneD
       THEN Return(fail_json(Ctx, "Error: Missing resource or resource_type for tags."),
                   result.changed, cur, remote)
       ELSE IF "tags" \in DOMAIN cur /\ TagsGiven
       THEN process_tags(tags_that_should_not_exist(cur, P("tags").items),
                         "deleteTags", "ensure_tags_create")
       ELSE Return(Ctx, result.changed, cur, remote)

\* ensure_tags(resource, resource_type): the tags that should exist are created
ensure_tags_create ==
    /\ pc = "ensure_tags_create"
    /\ status = "running"
    /\ Frame
    /\ process_tags(tags_that_should_exist_or_be_updated(cur, P("tags").items),
                    "createTags", "ensure_tags_assign")

\* ensure_tags(resource, resource_type): resource['tags'] = tags
ensure_tags_assign ==
    /\ pc = "ensure_tags_assign"
    /\ status = "running"
    /\ Frame
    /\ Return(Ctx, result.changed, [cur EXCEPT !.tags = P("tags").items], remote)

\* the resource whose tags are ensured, as the platform lists it
TaggedResource ==
    IF remote.tagged THEN [id |-> "vm-1", name |-> "web1", tags |-> remote.tags]
    ELSE [id |-> "vm-1", name |-> "web1"]

\* the caller of ensure_tags and of poll_job has the value returned
returned ==
    /\ pc = "returned"
    /\ status = "running"
    /\ cur' = IF module = "poll" THEN job ELSE cur
    /\ result' = [result EXCEPT !.out = ResultOf(module, cur')]
    /\ status' = "ok"
    /\ pc' = "done"
    /\ UNCHANGED <<module, argv, params, environ, check_mode, remote, self, stack,
                   job, key, msg, calls, queries, run, begin, prev>>

-----------------------------------------------------------------------------
(* main() of the modules, and the sequence of runs *)

\* main(): the method the state asks for; the harnesses of ensure_tags and
\* poll_job call them on the resource and the response they are given
main ==
    /\ pc = "main"
    /\ status = "running"
    /\ pc' = CASE module = "account" ->
                    (CASE P("state") = "absent" -> "absent_account"
                       [] P("state") \in {"enabled", "unlocked"} -> "enable_account"
                       [] P("state") \in {"disabled", "locked"} ->
                            "lock_or_disable_account"
                       [] OTHER -> "present_account")
               [] module = "cluster" ->
                    (IF P("state") = "absent" THEN "absent_cluster"
                     ELSE "present_cluster")
               [] module = "nic" ->
                    (IF P("state") = "present" THEN "present_nic" ELSE "absent_nic")
               [] module = "facts" -> "facts_run"
               [] module = "tags" -> "ensure_tags"
               [] module = "diff" -> "has_changed"
               [] module = "ostype" -> "get_os_type"
               [] module = "hypervisor" -> "get_hypervisor"
               [] OTHER -> "poll_job"
    /\ stack' = CASE module \in {"account", "cluster", "facts"} -> <<"get_result">>
                  [] module = "nic" -> <<"nic_get_result">>
                  [] OTHER -> <<"returned">>
    /\ cur' = CASE module = "tags" -> TaggedResource
                [] module = "diff" -> remote.current
                [] OTHER -> cur
    /\ job' = IF module = "poll" THEN params.job ELSE job
    /\ key' = IF module = "poll" THEN params.key ELSE key
    /\ UNCHANGED <<module, argv, params, environ, check_mode, remote, self, result,
                   status, msg, calls, queries, run, begin, prev>>

\* AnsibleCloudStackAccount.get_result(account): the name of the type of the
\* account, if the account carries a type that has a name
AccountResult(account) ==
    LET names == IF account # NoneD /\ "accounttype" \in DOMAIN account
                 THEN {k \in DOMAIN account_types :
                          account_types[k] = account.accounttype}
                 ELSE {}
    IN
    IF names # {} THEN "account_type" :> (CHOOSE k \in names : TRUE) ELSE << >>

\* AnsibleCloudStackInstanceFacts.get_result(instance): whether an entry of
\* the instance lacks a key that is read from it
InstanceRaises(instance) ==
    /\ instance # NoneD
    /\ \/ /\ "securitygroup" \in DOMAIN instance
          /\ \E g \in Range(instance.securitygroup) : "name" \notin DOMAIN g
       \/ /\ "affinitygroup" \in DOMAIN instance
          /\ \E g \in Range(instance.affinitygroup) : {"name", "id"} \ DOMAIN g # {}
       \/ /\ "nic" \in DOMAIN instance
          /\ \E n \in Range(instance.nic) : "isdefault" \notin DOMAIN n

\* AnsibleCloudStackInstanceFacts.get_result(instance): the names of the
\* security groups and of the affinity groups, the ids of the affinity
\* groups, and the address of the last default NIC that has one, written in
\* this order up to the entry that lacks a key that is read from it
InstanceResult(instance) ==
    IF instance = NoneD THEN << >>
    ELSE LET sgs == IF "securitygroup" \in DOMAIN instance
                    THEN instance.securitygroup ELSE << >>
             ags == IF "affinitygroup" \in DOMAIN instance
                    THEN instance.affinitygroup ELSE << >>
             nics == IF "nic" \in DOMAIN instance THEN instance.nic ELSE << >>
             names_ok == \A g \in Range(sgs) : "name" \in DOMAIN g
             groups_ok == names_ok /\ \A g \in Range(ags) : "name" \in DOMAIN g
             ids_ok == groups_ok /\ \A g \in Range(ags) : "id" \in DOMAIN g
             read == {i \in 1..Len(nics) :
                         \A j \in 1..i : "isdefault" \in DOMAIN nics[j]}
             defaults == {i \in read :
                             nics[i].isdefault /\ "ipaddress" \in DOMAIN nics[i]}
         IN
         (IF "securitygroup" \in DOMAIN instance /\ names_ok
          THEN "security_groups" :> [i \in 1..Len(sgs) |-> sgs[i].name]
          ELSE << >>)
         @@ (IF "affinitygroup" \in DOMAIN instance /\ groups_ok
             THEN "affinity_groups" :> [i \in 1..Len(ags) |-> ags[i].name]
             ELSE << >>)
         @@ (IF "affinitygroup" \in DOMAIN instance /\ ids_ok
             THEN "affinity_groups_ids" :> [i \in 1..Len(ags) |-> ags[i].id]
             ELSE << >>)
         @@ (IF ids_ok /\ defaults # {}
             THEN "default_ip" :> nics[Max(defaults)].ipaddress
             ELSE << >>)

\* main(): result = get_result(resource) and module.exit_json(**result); the
\* get_result of the subclass adds its keys to those of the base class, and
\* an exception in it leaves what was written before it
get_result ==
    /\ pc = "get_result"
    /\ status = "running"
    /\ pc' = "done"
    /\ result' = [result EXCEPT !.out =
                    (CASE module = "account" -> AccountResult(cur)
                       [] module = "facts" -> InstanceResult(cur)
                       [] OTHER -> << >>)
                    @@ ResultOf(module, cur)]
    /\ IF module = "facts" /\ InstanceRaises(cur)
       THEN /\ status' = "crashed"
            /\ msg' = "KeyError"
       ELSE /\ status' = "ok"
            /\ UNCHANGED msg
    /\ UNCHANGED <<module, argv, params, environ, check_mode, remote, self, stack, cur,
                   job, key, calls, queries, run, begin, prev>>

\* the attributes of a new instance
NewSelf ==
    [domain |-> NoneD, account |-> NoneD, project |-> NoneD, zone |-> NoneD,
     vpc |-> NoneD, network |-> NoneD, vm |-> NoneD, nic |-> NoneD,
     cluster |-> NoneD, os_type |-> NoneD, hypervisor |-> None,
     vm_guest_ip |-> P("vm_guest_ip")]

\* self.result of a new instance
NewResult == [changed |-> FALSE, before |-> << >>, after |-> << >>, out |-> << >>]

\* what is kept of a run that has ended
Summary ==
    [status |-> status, msg |-> msg, changed |-> result.changed, out |-> result.out,
     after |-> result.after, check_mode |-> check_mode, calls |-> calls, queries |-> queries,
     begin |-> begin, end |-> remote]

\* there is no previous run
NoRun ==
    [status |-> "none", msg |-> None, changed |-> FALSE, out |-> << >>,
     after |-> << >>, check_mode |-> FALSE, calls |-> << >>, queries |-> 0,
     begin |-> NoneD, end |-> NoneD]

\* supports_check_mode: the check modes a module can be run in
CheckModes(m) == IF m \in {"account", "cluster", "nic", "tags"} THEN BOOLEAN ELSE {FALSE}

\* the module is invoked again with the same options, in check mode or not;
\* module.params is made of the options anew
NextRun ==
    /\ pc = "done"
    /\ run < MaxRuns
    /\ run' = run + 1
    /\ prev' = Summary
    /\ begin' = remote
    /\ check_mode' \in CheckModes(module)
    /\ self' = NewSelf
    /\ result' = NewResult
    /\ pc' = "main"
    /\ stack' = << >>
    /\ cur' = NoneD
    /\ job' = NoneD
    /\ key' = None
    /\ status' = "running"
    /\ msg' = None
    /\ calls' = << >>
    /\ queries' = 0
    /\ params' = argv
    /\ UNCHANGED <<module, argv, environ, remote>>

-----------------------------------------------------------------------------
(* The initial states: the options of the invocation and the platform *)

\* the platform with nothing in it but the domains ROOT and CUSTOMERS
EmptyRemote ==
    [domains |-> <<[id |-> "d-root", name |-> "ROOT", path |-> "ROOT"],
                   [id |-> "d-cust", name |-> "CUSTOMERS",
                    path |-> "ROOT/CUSTOMERS"]>>,
     accounts |-> << >>,
     projects |-> << >>, zones |-> << >>, pods |-> << >>, clusters |-> << >>,
     vpcs |-> << >>, networks |-> << >>, vms |-> << >>, nics |-> << >>,
     tagged |-> FALSE, tags |-> << >>, jobs |-> << >>]

\* the account acme of the domain ROOT in a state
Acme(state) ==
    [id |-> "a-acme", name |-> "acme", state |-> state, domainid |-> "d-root",
     domain |-> "ROOT", accounttype |-> 0]

\* the user fields of cs_account: all given, none given, some given
UserFields ==
    {[email |-> "a@b.com", username |-> "acme", password |-> "x",
      first_name |-> "A", last_name |-> "B"],
     [email |-> None, username |-> None, password |-> None,
      first_name |-> None, last_name |-> None],
     [email |-> None, username |-> "acme", password |-> "x",
      first_name |-> "A", last_name |-> None]}

\* the states cs_account accepts
AccountStates == {"present", "absent", "enabled", "disabled", "locked", "unlocked"}

\* the options of cs_account; domain has the default ROOT
AccountParams ==
    {[name |-> "acme", domain |-> d, state |-> s, poll_async |-> pa] @@ u :
        d \in {"ROOT", "NOSUCH"}, s \in AccountStates, pa \in BOOLEAN,
        u \in UserFields}

\* the platforms cs_account runs against: without the account, with the
\* account in a state, and with an account whose name is that of the option
\* in another letter case
AccountRemotes ==
    {[EmptyRemote EXCEPT !.accounts = a] :
        a \in {<< >>, <<[Acme("enabled") EXCEPT !.id = "a-0", !.name = "Acme"]>>}
              \cup {<<Acme(st)>> : st \in {"enabled", "disabled", "locked"}}}

\* the first run begins
InitRun ==
    /\ argv = params
    /\ self = NewSelf
    /\ result = NewResult
    /\ pc = "main"
    /\ stack = << >>
    /\ cur = NoneD
    /\ job = NoneD
    /\ key = None
    /\ status = "running"
    /\ msg = None
    /\ calls = << >>
    /\ queries = 0
    /\ run = 1
    /\ begin = remote
    /\ prev = NoRun

\* cs_account is invoked
InitAccount ==
    /\ module = "account"
    /\ params \in AccountParams
    /\ environ = << >>
    /\ check_mode \in BOOLEAN
    /\ remote \in AccountRemotes
    /\ InitRun

\* cs_cluster: the zone, the pod and the cluster CL1 of the platform
Zone1 == [id |-> "z-1", name |-> "Zone1"]
Pod1 == [id |-> "p-1", name |-> "pod1", zoneid |-> "z-1"]
CL1(allocationstate) ==
    [id |-> "c-CL1", name |-> "CL1", hypervisortype |-> "KVM",
     clustertype |-> "CloudManaged", allocationstate |-> allocationstate,
     zoneid |-> "z-1", podid |-> "p-1", managedstate |-> "Managed",
     cpuovercommitratio |-> "1.0", memoryovercommitratio |-> "1.0"]

\* the options of cs_cluster
ClusterParams ==
    {[name |-> "CL1", state |-> s, hypervisor |-> h, cluster_type |-> t,
      zone |-> z, pod |-> "pod1"] :
        s \in {"present", "absent", "enabled", "disabled"},
        h \in {None, "KVM", "kvm", "VMware"}, t \in {None, "CloudManaged"},
        z \in {None, "Zone1"}}

\* the platforms cs_cluster runs against: with one zone and one pod, and
\* with two zones of one name, two pods of one name in the first of them
\* and no cluster or two clusters of one name
ClusterRemotes ==
    {[EmptyRemote EXCEPT !.zones = <<Zone1>>, !.pods = <<Pod1>>, !.clusters = x] :
        x \in {<< >>, <<CL1("Enabled")>>, <<CL1("Disabled")>>}}
    \cup
    {[EmptyRemote EXCEPT !.zones = <<Zone1, [Zone1 EXCEPT !.id = "z-1b"]>>,
                         !.pods = <<Pod1, [Pod1 EXCEPT !.id = "p-1b"]>>,
                         !.clusters = x] :
        x \in {<< >>, <<CL1("Enabled"), [CL1("Enabled") EXCEPT !.id = "c-CL1b"]>>}}

\* the platforms of cs_cluster that have no zone yet, or a zone without a pod
NewSiteRemotes ==
    {EmptyRemote, [EmptyRemote EXCEPT !.zones = <<Zone1>>]}

\* the platforms of cs_cluster on which the only cluster of the name CL1 lies in
\* a second zone
OtherZoneRemotes ==
    {[EmptyRemote EXCEPT
        !.zones = <<Zone1, [id |-> "z-2", name |-> "Zone2"]>>,
        !.pods = <<Pod1, [id |-> "p-2", name |-> "pod1", zoneid |-> "z-2"]>>,
        !.clusters = <<[CL1(st) EXCEPT !.zoneid = "z-2", !.podid = "p-2"]>>] :
     st \in {"Enabled", "Disabled"}}

\* cs_cluster is invoked
InitCluster ==
    /\ module = "cluster"
    /\ params \in ClusterParams
    /\ environ = << >>
    /\ check_mode \in BOOLEAN
    /\ remote \in ClusterRemotes \cup NewSiteRemotes \cup OtherZoneRemotes
    /\ InitRun

\* the scopes an invocation names by option or by environment variable
Scopes ==
    {[domain |-> None, account |-> None, env |-> << >>],
     [domain |-> "CUSTOMERS", account |-> None, env |-> << >>],
     [domain |-> "CUSTOMERS", account |-> "acme", env |-> << >>],
     [domain |-> None, account |-> "acme", env |-> << >>],
     [domain |-> None, account |-> "acme",
      env |-> [CLOUDSTACK_DOMAIN |-> "CUSTOMERS"]],
     [domain |-> None, account |-> None, env |-> [CLOUDSTACK_ACCOUNT |-> "acme"]],
     [domain |-> "CUSTOMERS", account |-> None,
      env |-> [CLOUDSTACK_ACCOUNT |-> "acme"]],
     [domain |-> None, account |-> None,
      env |-> [CLOUDSTACK_ACCOUNT |-> "acme", CLOUDSTACK_DOMAIN |-> "CUSTOMERS"]]}

\* cs_nic: the network, the virtual machine and its NIC, of the account acme
\* of the domain CUSTOMERS
Net1 ==
    [id |-> "n-1", name |-> "net1", displaytext |-> "net1", account |-> "acme",
     domainid |-> "d-cust"]
Web1 ==
    [id |-> "vm-1", name |-> "web1", displayname |-> "Web1", account |-> "acme",
     domainid |-> "d-cust", domain |-> "CUSTOMERS", hypervisor |-> "KVM",
     instancename |-> "i-2-1-vm", templatename |-> "debian-8",
     securitygroup |-> <<[id |-> "sg-1", name |-> "default"]>>,
     affinitygroup |-> <<[id |-> "ag-1", name |-> "web"]>>,
     nic |-> <<[id |-> "nic-1", isdefault |-> TRUE, ipaddress |-> "10.0.0.2",
                networkid |-> "n-1"]>>]
SecondaryIp5 ==
    [id |-> "ip-10.0.0.5", ipaddress |-> "10.0.0.5", nicid |-> "nic-1",
     networkid |-> "n-1"]
Nic1(secondaryip) ==
    [id |-> "nic-1", virtualmachineid |-> "vm-1", networkid |-> "n-1",
     ipaddress |-> "10.0.0.2", macaddress |-> "02:00:00:00:00:01",
     netmask |-> "255.255.255.0", secondaryip |-> secondaryip]
AcmeOfCustomers ==
    [id |-> "a-acme", name |-> "acme", state |-> "enabled", domainid |-> "d-cust",
     domain |-> "CUSTOMERS", accounttype |-> 0]

\* the platforms cs_nic and cs_instance_facts run against
NicRemotes ==
    {[EmptyRemote EXCEPT !.accounts = <<AcmeOfCustomers>>, !.zones = <<Zone1>>,
                         !.networks = <<Net1>>, !.vms = <<Web1>>,
                         !.nics = <<Nic1(s)>>] :
        s \in {<< >>, <<SecondaryIp5>>}}

\* a platform of cs_nic on which the network of the virtual machine, and so
\* its default NIC, belongs to a VPC; the account has a project, with no
\* resource in it
VpcRemotes ==
    {[EmptyRemote EXCEPT
        !.accounts = <<AcmeOfCustomers>>, !.zones = <<Zone1>>,
        !.projects = <<[id |-> "pr-1", name |-> "proj1", account |-> "acme",
                        domainid |-> "d-cust"]>>,
        !.vpcs = <<[id |-> "vpc-1", name |-> "vpc1", displaytext |-> "vpc1",
                    account |-> "acme", domainid |-> "d-cust",
                    network |-> <<[id |-> "n-1"]>>]>>,
        !.networks = <<Net1 @@ [vpcid |-> "vpc-1"]>>,
        !.vms = <<Web1 @@ [vpcid |-> "vpc-1"]>>,
        !.nics = <<Nic1(<<SecondaryIp5>>)>>]}

\* a platform of cs_nic that lists two accounts for the name acme, two
\* virtual machines for the name web1, one by its name and one by its
\* display name, and two NICs for the first
TwinRemotes ==
    {[EmptyRemote EXCEPT
        !.accounts = <<AcmeOfCustomers,
                       [AcmeOfCustomers EXCEPT !.id = "a-acme2",
                                               !.state = "disabled"]>>,
        !.zones = <<Zone1>>,
        !.networks = <<Net1>>,
        !.vms = <<Web1, [Web1 EXCEPT !.id = "vm-2", !.name = "web1-old",
                                     !.displayname = "web1"]>>,
        !.nics = <<Nic1(<<SecondaryIp5>>),
                   [Nic1(<< >>) EXCEPT !.id = "nic-2", !.networkid = "n-2",
                                       !.ipaddress = "10.0.9.2"]>>]}

\* a platform of cs_nic on which the virtual machine has no NIC, and one on
\* which no network is listed
BareRemotes ==
    {[EmptyRemote EXCEPT !.accounts = <<AcmeOfCustomers>>, !.zones = <<Zone1>>,
                         !.networks = <<Net1>>, !.vms = <<Web1>>],
     [EmptyRemote EXCEPT !.accounts = <<AcmeOfCustomers>>, !.zones = <<Zone1>>,
                         !.vms = <<Web1>>, !.nics = <<Nic1(<< >>)>>]}

\* a platform of cs_nic on which the virtual machine has a NIC on each of
\* two networks, the NIC on the network net1 listed second; the secondary
\* address is one of the NIC on the network net2
MultiNetRemotes ==
    {[EmptyRemote EXCEPT
        !.accounts = <<AcmeOfCustomers>>, !.zones = <<Zone1>>,
        !.networks = <<Net1, [Net1 EXCEPT !.id = "n-2", !.name = "net2",
                                          !.displaytext = "net2"]>>,
        !.vms = <<Web1>>,
        !.nics = <<[Nic1(<<[SecondaryIp5 EXCEPT !.nicid = "nic-2",
                                                !.networkid = "n-2"]>>)
                       EXCEPT !.id = "nic-2", !.networkid = "n-2",
                              !.ipaddress = "10.0.9.2"],
                   Nic1(<< >>)>>]}

\* the options of cs_nic
NicParams ==
    {[vm |-> "web1", vm_guest_ip |-> ip, network |-> n, state |-> s,
      poll_async |-> pa, domain |-> sc.domain, account |-> sc.account] :
        ip \in {None, "10.0.0.5"}, n \in {None, "net1", "NET1"},
        s \in {"present", "absent"}, pa \in BOOLEAN, sc \in Scopes}

\* cs_nic is invoked; state=absent requires vm_guest_ip
InitNic ==
    /\ module = "nic"
    /\ \E sc \in Scopes :
        /\ environ = sc.env
        /\ params \in {p \in NicParams :
                          /\ p.domain = sc.domain
                          /\ p.account = sc.account
                          /\ (p.state = "absent" => p.vm_guest_ip # None)}
    /\ check_mode \in BOOLEAN
    /\ remote \in NicRemotes \cup VpcRemotes \cup TwinRemotes \cup BareRemotes
                   \cup MultiNetRemotes
    /\ InitRun

\* cs_nic is invoked for a virtual machine of a VPC, the VPC named by option
\* or by environment variable; the VPC, the zone, the project, the network or
\* the virtual machine is named in another letter case than the platform has
\* it in, or by its id, or by its id in upper case
InitNicVpc ==
    /\ module = "nic"
    /\ \E base \in {[vm |-> "web1", network |-> None, vpc |-> "vpc1", zone |-> None,
                      project |-> None, env |-> << >>]} :
       \E sc \in {[base EXCEPT !.vpc = x] : x \in {"vpc1", "VPC1", "vpc-1", "VPC-1"}}
                 \cup {[base EXCEPT !.vpc = None, !.env = [CLOUDSTACK_VPC |-> "vpc1"]]}
                 \cup {[base EXCEPT !.zone = x] : x \in {"zone1", "Z-1"}}
                 \cup {[base EXCEPT !.project = x] : x \in {"PROJ1", "PR-1"}}
                 \cup {[base EXCEPT !.network = x] :
                          x \in {"net1", "NET1", "n-1", "N-1"}}
                 \cup {[base EXCEPT !.vm = x] : x \in {"WEB1", "VM-1"}},
          ip \in {None, "10.0.0.5"}, s \in {"present", "absent"} :
        /\ environ = sc.env
        /\ s = "absent" => ip # None
        /\ params = [vm |-> sc.vm, vm_guest_ip |-> ip, network |-> sc.network,
                     state |-> s, poll_async |-> TRUE, domain |-> "CUSTOMERS",
                     account |-> "acme", vpc |-> sc.vpc, zone |-> sc.zone,
                     project |-> sc.project]
    /\ check_mode \in BOOLEAN
    /\ remote \in VpcRemotes
    /\ InitRun

\* cs_instance_facts is invoked; it does not support check mode
InitFacts ==
    /\ module = "facts"
    /\ \E sc \in Scopes :
        /\ environ = sc.env
        /\ params \in {[name |-> n, domain |-> sc.domain, account |-> sc.account] :
                          n \in {"web1", "WEB1", "VM-1", "db1"}}
    /\ check_mode = FALSE
    /\ remote \in NicRemotes
    /\ InitRun

\* the tags of the model, in the order the lists have them
Tags ==
    <<[key |-> "env", value |-> "prod"], [key |-> "env", value |-> "test"],
      [key |-> "owner", value |-> "ops"]>>

\* the lists of at most n tags, no tag twice
TagLists(n) ==
    {SelectSeq(Tags, LAMBDA t : t \in S) :
        S \in {T \in SUBSET Range(Tags) : Cardinality(T) <= n}}

\* ensure_tags is called on a resource: the option tags is a list or None, the
\* resource carries the key tags or not
InitTags ==
    /\ module = "tags"
    /\ params \in {[resource_type |-> "UserVm", tags |-> t] :
                      t \in {NoneD} \cup {[items |-> l] : l \in TagLists(MaxTags)}}
    /\ environ = << >>
    /\ check_mode \in BOOLEAN
    /\ remote \in {[EmptyRemote EXCEPT !.vms = <<Web1>>, !.tagged = g, !.tags = l] :
                      g \in BOOLEAN, l \in TagLists(MaxTags)}
    /\ (~remote.tagged => remote.tags = << >>)
    /\ InitRun

\* the responses poll_job is called on: a job the platform has accepted, and
\* the answers of calls that make no job
Responses ==
    {[jobid |-> 1], [account |-> [id |-> "a-acme", state |-> "enabled"]],
     ErrorResponse}

\* poll_job is called on a response with a key to extract, or none
InitPoll ==
    /\ module = "poll"
    /\ params \in {[job |-> j, key |-> k] :
                      j \in Responses, k \in {None, "account", "nicsecondaryip"}}
    /\ environ = << >>
    /\ check_mode = FALSE
    /\ remote = [EmptyRemote EXCEPT !.jobs = <<NewJob([op |-> "probe"])>>]
    /\ InitRun

\* has_changed is called on a wanted and a current dictionary: a key compared
\* without case, a key compared with case and a key that holds a number
InitDiff ==
    /\ module = "diff"
    /\ \E h \in {None, "KVM", "kvm"}, d \in {None, "KVM", "kvm"}, n \in 0..2 :
          params = [want |-> [hypervisor |-> Str(h), displaytext |-> Str(d),
                              size |-> IF n = 0 THEN Str(None) ELSE Int_(n)]]
    /\ environ = << >>
    /\ check_mode = FALSE
    /\ \E h \in {None, "KVM", "kvm", "1"}, d \in {None, "KVM"},
          n \in {None, "int", "1", "2", "kvm"} :
          remote = EmptyRemote @@
              [current |->
                  (IF h = None THEN << >>
                   ELSE [hypervisor |-> IF h = "1" THEN Int_(1) ELSE Str(h)])
                  @@ (IF d = None THEN << >> ELSE [displaytext |-> Str(d)])
                  @@ (IF n = None THEN << >>
                      ELSE [size |-> IF n = "int" THEN Int_(1) ELSE Str(n)])]
    /\ InitRun

\* get_os_type is called twice with a key, for an OS type named by its
\* description or its id, in the letter case of the platform or in another,
\* for one the platform does not have, or for none
InitOsType ==
    /\ module = "ostype"
    /\ params \in {[os_type |-> o, key |-> k, zone_first |-> z] :
                      o \in {None, "Debian", "debian", "os-2", "OS-2", "Plan9"},
                      k \in {"id", "description", "name"}, z \in BOOLEAN}
    /\ environ = << >>
    /\ check_mode = FALSE
    /\ remote \in {[EmptyRemote EXCEPT !.zones = zs] @@
                      [ostypes |-> <<[id |-> "os-1", description |-> "Debian"],
                                     [id |-> "os-2", description |-> "CentOS"]>>] :
                    zs \in {<<Zone1>>, <<Zone1, [id |-> "z-2", name |-> "Zone2"]>>}}
    /\ InitRun

\* get_hypervisor is called twice, for a hypervisor named in the letter
\* case of the platform or in another, for one the platform does not have,
\* or for none
InitHypervisor ==
    /\ module = "hypervisor"
    /\ params \in {[hypervisor |-> h] : h \in {None, "KVM", "kvm", "VMware", "Xen"}}
    /\ environ = << >>
    /\ check_mode = FALSE
    /\ remote = EmptyRemote @@ [hypervisors |-> <<[name |-> "KVM"],
                                                  [name |-> "VMware"]>>]
    /\ InitRun

Init ==
    \/ InitAccount
    \/ InitDiff
    \/ InitOsType
    \/ InitHypervisor
    \/ InitCluster
    \/ InitNic
    \/ InitNicVpc
    \/ InitFacts
    \/ InitTags
    \/ InitPoll

Next ==
    \/ main
    \/ present_account
    \/ enable_account
    \/ enable_account_state
    \/ lock_or_disable_account
    \/ lock_or_disable_account_enable
    \/ lock_or_disable_account_disable
    \/ lock_or_disable_account_return
    \/ absent_account
    \/ absent_account_return
    \/ present_cluster
    \/ create_cluster
    \/ update_cluster
    \/ absent_cluster
    \/ present_nic
    \/ present_nic_add
    \/ present_nic_return
    \/ absent_nic
    \/ absent_nic_remove
    \/ absent_nic_return
    \/ nic_get_result
    \/ facts_run
    \/ call_has_changed
    \/ apply_after
    \/ call_get_os_type
    \/ call_get_os_type_again
    \/ call_get_hypervisor
    \/ ensure_tags
    \/ ensure_tags_create
    \/ ensure_tags_assign
    \/ returned
    \/ poll_job
    \/ poll_sleep
    \/ get_result
    \/ PlatformFinishesJob
    \/ NextRun

Spec == Init /\ [][Next]_vars

\* the loop of poll_job goes on while the run is in it
FairSpec == Spec /\ WF_vars(poll_job) /\ WF_vars(poll_sleep)

-----------------------------------------------------------------------------
(* The properties *)

\* the run has ended
Done == pc = "done"

\* the run has ended without a failure
Completed == pc = "done" /\ status = "ok"

\* the account the options of cs_account name, on the platform r
NamedAccounts(r) ==
    {i \in 1..Len(r.accounts) :
        /\ r.accounts[i].name = P("name")
        /\ \E d \in 1..Len(r.domains) :
              /\ r.domains[d].id = r.accounts[i].domainid
              /\ r.domains[d].name = P("domain")}

\* the cluster the options of cs_cluster name, on the platform r
NamedClusters(r) == {i \in 1..Len(r.clusters) : r.clusters[i].name = P("name")}

\* the platform r has the cluster of the options, with the hypervisor and the
\* cluster type that are asked for
ClusterMatches(r) ==
    /\ NamedClusters(r) # {}
    /\ \A i \in NamedClusters(r) :
          /\ P("hypervisor") # None =>
                Lower(P("hypervisor")) = Lower(r.clusters[i].hypervisortype)
          /\ P("cluster_type") # None =>
                Lower(P("cluster_type")) = Lower(r.clusters[i].clustertype)

\* state=present is asked for and the platform r has the resource as asked for
PresentAndMatching(r) ==
    \/ /\ module = "account"
       /\ P("state") = "present"
       /\ MissingParams(RequiredAccountParams) = << >>
       /\ NamedAccounts(r) # {}
    \/ /\ module = "cluster"
       /\ P("state") = "present"
       /\ ClusterMatches(r)

\* C1: when state=present is asked for and the account (all user fields
\* given) or the cluster is on the platform as asked for when the run begins,
\* the run issues no mutating call, leaves the platform as it is and ends
\* without failure and with changed false; the run after it begins with the
\* same platform, so it does the same
C1_PresentIsIdempotent ==
    PresentAndMatching(begin) =>
        /\ Mutating(calls) = << >>
        /\ remote = begin
        /\ ~result.changed
        /\ Done => status = "ok"

\* C1, its case: the second run on a cluster that is there, asked for with
\* its hypervisor in another case, has ended
C1_Witness ==
    /\ module = "cluster"
    /\ run = 2
    /\ Completed
    /\ PresentAndMatching(begin)
    /\ P("hypervisor") = "kvm"
    /\ prev.status = "ok"

\* cs_account with state=locked, without check mode, begins with the account
\* of the options disabled
LockOfDisabled ==
    /\ module = "account"
    /\ ~check_mode
    /\ P("state") = "locked"
    /\ NamedAccounts(begin) # {}
    /\ \A i \in NamedAccounts(begin) : begin.accounts[i].state = "disabled"

\* C2: without check mode, a run of cs_account with state=locked on an account
\* that is disabled issues enableAccount and then disableAccount with lock
\* true and no other mutating call: at every moment its mutating calls are the
\* beginning of that sequence, and a run that ends without failure has issued
\* both
C2_LockOfDisabledEnablesFirst ==
    LockOfDisabled =>
        LET m == Mutating(calls) IN
        /\ Len(m) <= 2
        /\ Len(m) >= 1 => m[1].api = "enableAccount"
        /\ Len(m) = 2 => m[2].api = "disableAccount" /\ m[2].lock = TRUE
        /\ Completed => Len(m) = 2

\* C2, its case: such a run has ended with the account locked
C2_Witness ==
    /\ LockOfDisabled
    /\ Completed
    /\ Len(Mutating(calls)) = 2
    /\ \A i \in NamedAccounts(remote) : remote.accounts[i].state = "locked"

\* C3, as the claim has it: a run without check mode that ends without failure
\* after a run in check mode with the same options on the same platform: the
\* run in check mode issued no mutating call and ended without failure with
\* the same changed
C3_CheckModeSameChanged ==
    (/\ module \in {"account", "cluster", "nic"}
     /\ run = 2
     /\ prev.check_mode
     /\ ~check_mode
     /\ Completed)
    => /\ Mutating(prev.calls) = << >>
       /\ prev.end = prev.begin
       /\ prev.status = "ok"
       /\ prev.changed = result.changed

\* an account is named by the option or by CLOUDSTACK_ACCOUNT
AccountSupplied == P("account") # None \/ E("CLOUDSTACK_ACCOUNT") # None

\* C4: when cs_nic or cs_instance_facts is given an account, by the option or
\* by CLOUDSTACK_ACCOUNT, and the option domain is not given, the run never
\* calls listAccounts and ends failed with the message "Account must be
\* specified with Domain"
C4_AccountNeedsDomain ==
    (module \in {"nic", "facts"} /\ AccountSupplied /\ P("domain") = None) =>
        /\ \A i \in 1..Len(calls) : calls[i].api # "listAccounts"
        /\ Done => status = "failed" /\ msg = "Account must be specified with Domain"

\* C4, its case: cs_nic has failed so with the account given by the environment
C4_Witness ==
    /\ module = "nic"
    /\ P("account") = None
    /\ E("CLOUDSTACK_ACCOUNT") = "acme"
    /\ P("domain") = None
    /\ Done
    /\ status = "failed"
    /\ msg = "Account must be specified with Domain"
    /\ calls = << >>

\* C5: poll_job on a response without jobid returns the response as it is and
\* queries no job, whatever the key
C5_NoJobIdNoPolling ==
    (module = "poll" /\ "jobid" \notin DOMAIN params.job) =>
        /\ queries = 0
        /\ calls = << >>
        /\ pc # "poll_sleep"
        /\ Done => status = "ok" /\ cur = params.job

\* C5, its case: poll_job has returned a response that has the key asked for
C5_Witness ==
    /\ module = "poll"
    /\ params.key = "account"
    /\ "account" \in DOMAIN params.job
    /\ Completed
    /\ cur = params.job

\* the job poll_job waits for has failed: its result carries the error text
PolledJobFailed ==
    /\ pc = "poll_job"
    /\ HasJobId(job)
    /\ remote.jobs[job.jobid].jobstatus # 0
    /\ remote.jobs[job.jobid].hasresult
    /\ "errortext" \in DOMAIN remote.jobs[job.jobid].jobresult

\* C6: when the job poll_job queries has failed, the query ends the run failed
\* with the message that holds the error text of the job, nothing is returned,
\* and a failed run issues no remote call and no query any more
C6_FailedJobAborts ==
    [][/\ (PolledJobFailed /\ pc' # pc) =>
            /\ status' = "failed"
            /\ msg' = "Failed: '" \o remote.jobs[job.jobid].jobresult.errortext \o "'"
            /\ pc' = "done"
            /\ UNCHANGED <<calls, cur, job, remote>>
       /\ (status = "failed" /\ run' = run) => UNCHANGED <<calls, queries, status, msg>>
      ]_vars

\* C6, its case: cs_account has failed on the job of its call
C6_Witness ==
    /\ module = "account"
    /\ Done
    /\ status = "failed"
    /\ msg = "Failed: 'platform error'"
    /\ queries > 0
    /\ Len(Mutating(calls)) > 0

\* poll_job was called on the job of the platform and returned
PolledToSuccess ==
    /\ module = "poll"
    /\ HasJobId(params.job)
    /\ Completed

\* C7, as amended: when the job succeeds, poll_job returns the value under the
\* key if the key is given and in the result of the job, and the response it
\* was called with otherwise
C7_ReturnsKeyOrResponse ==
    PolledToSuccess =>
        LET payload == remote.jobs[params.job.jobid].jobresult IN
        cur = IF params.key # None /\ params.key \in DOMAIN payload
              THEN payload[params.key] ELSE params.job

\* C7, as the claim has it: the value under the key, and the result of the job
\* otherwise
C7_ReturnsKeyOrPayload ==
    PolledToSuccess =>
        LET payload == remote.jobs[params.job.jobid].jobresult IN
        cur = IF params.key # None /\ params.key \in DOMAIN payload
              THEN payload[params.key] ELSE payload

\* C7, its case: the key is given and is not in the result of the job
C7_Witness ==
    /\ PolledToSuccess
    /\ params.key = "nicsecondaryip"
    /\ "account" \in DOMAIN remote.jobs[params.job.jobid].jobresult
    /\ cur = params.job

\* poll_job is in its loop
Polling == pc \in {"poll_job", "poll_sleep"} /\ HasJobId(job)

\* the platform reports the polled job as no longer pending, with a result
JobReported ==
    /\ queryAsyncJobResult(job.jobid).jobstatus # 0
    /\ "jobresult" \in DOMAIN queryAsyncJobResult(job.jobid)

\* C8, as amended: once the job reports a status that is not pending together
\* with a result, poll_job stops polling: it returns or fails; as long as the
\* job is pending, or is reported without a result, no step of poll_job
\* leaves the loop
C8_PollerStopsOnResult ==
    /\ (Polling /\ JobReported) ~> ~Polling
    /\ [][(Polling /\ ~JobReported) => Polling']_vars

\* C8, as the claim has it: once the job reports a status that is not pending,
\* poll_job stops polling
C8_PollerStopsOnStatus ==
    (Polling /\ queryAsyncJobResult(job.jobid).jobstatus # 0) ~> ~Polling

\* C8, its case: poll_job has returned after it found the job pending
C8_Witness ==
    /\ module = "poll"
    /\ HasJobId(params.job)
    /\ Completed
    /\ queries = MaxPolls
    /\ remote.jobs[params.job.jobid].jobstatus # 0

\* the tags that are asked for, as a set
WantedTags == Range(P("tags").items)

\* C9, as the claim has it, on a resource that is listed with its tags: after
\* ensure_tags without check mode the tags of the resource are the wanted
\* ones, and ensure_tags after that issues no call and does not set changed
C9_TagsReconciled ==
    (/\ module = "tags"
     /\ TagsGiven
     /\ begin.tagged
     /\ ~check_mode
     /\ Completed)
    => /\ Range(remote.tags) = WantedTags
       /\ (run = 2 /\ ~prev.check_mode /\ prev.status = "ok") =>
             calls = << >> /\ ~result.changed

\* the tags ensure_tags has to delete and to create, of the tags at the begin
ToRemove == Range(begin.tags) \ WantedTags
ToAdd == WantedTags \ Range(begin.tags)

\* the calls of a run are one deleteTags of the tags to delete if there are
\* any, then one createTags of the tags to create if there are any
OneCallPerBatch ==
    LET dels == IF ToRemove # {} THEN 1 ELSE 0
        adds == IF ToAdd # {} THEN 1 ELSE 0
    IN
    /\ Len(calls) = dels + adds
    /\ dels = 1 => calls[1].api = "deleteTags" /\ Range(calls[1].tags) = ToRemove
    /\ adds = 1 => /\ calls[dels + 1].api = "createTags"
                   /\ Range(calls[dels + 1].tags) = ToAdd

\* ensure_tags has ended on a resource that is listed with its tags
TagsEnsured == module = "tags" /\ TagsGiven /\ begin.tagged /\ Completed

\* createTags is issued in this step
IssuesCreateTags ==
    /\ Len(calls') = Len(calls) + 1
    /\ calls'[Len(calls')].api = "createTags"

\* the jobs of this run have ended and poll_job is not in its loop
JobsOfRunEnded ==
    /\ ~Polling
    /\ \A j \in (Len(begin.jobs) + 1)..Len(remote.jobs) :
          remote.jobs[j].jobstatus # 0 /\ remote.jobs[j].hasresult

\* C10, as amended: without check mode, ensure_tags issues one deleteTags of
\* all the tags to delete if there are any, then one createTags of all the
\* tags to create if there are any, and no other call; createTags is issued
\* only when deleteTags and the poll of its job have ended; in check mode it
\* issues no call and marks the run changed exactly when there is a tag to
\* delete or to create
C10_DeleteThenCreate ==
    /\ [](TagsEnsured /\ ~check_mode => OneCallPerBatch)
    /\ [](TagsEnsured /\ check_mode =>
             /\ calls = << >>
             /\ result.changed <=> (ToRemove \cup ToAdd # {}))
    /\ [][(module = "tags" /\ IssuesCreateTags) => JobsOfRunEnded]_vars

\* C10, as the claim has it: the same in every mode
C10_OneCallPerBatch == TagsEnsured => OneCallPerBatch

\* C10, its case: two tags were deleted, then one created
C10_Witness ==
    /\ TagsEnsured
    /\ ~check_mode
    /\ Len(calls) = 2
    /\ Len(calls[1].tags) = 2
    /\ Len(calls[2].tags) = 1
    /\ queries > 0

\* the run before this one recorded a diff, and the current dictionary this
\* run began with is that of the run before with the after values written
\* into it
AfterApplied ==
    /\ module = "diff"
    /\ run = 2
    /\ prev.status = "ok"
    /\ prev.changed
    /\ DOMAIN begin.current = DOMAIN prev.begin.current \cup DOMAIN prev.after
    /\ \A k \in DOMAIN begin.current :
          IF k \in DOMAIN prev.after
          THEN /\ begin.current[k].t = params.want[k].t
               /\ begin.current[k].v = prev.after[k]
          ELSE begin.current[k] = prev.begin.current[k]

\* C11: when has_changed(wanted, current) has recorded a diff and the values
\* it recorded as after are written into current, has_changed on the wanted
\* dictionary and that current dictionary raises nothing and returns false
C11_DiffSymmetry ==
    (AfterApplied /\ Done) => (status = "ok" /\ ~result.changed)

\* C11, its case: the second call has returned, after a first call that found
\* the name in another case, a number that differs and a key that is missing
C11_Witness ==
    /\ AfterApplied
    /\ Completed
    /\ {"hypervisor", "displaytext", "size"} \subseteq DOMAIN prev.after
    /\ "displaytext" \notin DOMAIN prev.begin.current
    /\ "size" \in DOMAIN prev.begin.current
    /\ prev.after.displaytext = "kvm"

\* C12, as the claim has it: a run of cs_account, cs_cluster or cs_nic issues
\* at most one mutating call
C12_AtMostOneMutatingCall ==
    module \in {"account", "cluster", "nic"} => Len(Mutating(calls)) <= 1

\* C12, as amended: a run of cs_account, cs_cluster or cs_nic issues at most
\* one mutating call, but for cs_account with state disabled or locked, which
\* issues at most two: createAccount or enableAccount, and disableAccount
\* after it
C12_OneCallOrPreparedDisable ==
    module \in {"account", "cluster", "nic"} =>
        LET m == Mutating(calls) IN
        /\ Len(m) <= 2
        /\ Len(m) = 2 =>
              /\ module = "account"
              /\ P("state") \in {"disabled", "locked"}
              /\ m[1].api \in {"createAccount", "enableAccount"}
              /\ m[2].api = "disableAccount"

\* C12, its case: cs_account with state disabled on an account that is not
\* there has created it and disabled it
C12_Witness ==
    /\ module = "account"
    /\ P("state") = "disabled"
    /\ Completed
    /\ NamedAccounts(begin) = {}
    /\ Apis(Mutating(calls)) = <<"createAccount", "disableAccount">>

\* cs_account is to create the account and a required user field is missing:
\* state=present, or state enabled, disabled or locked with the domain on the
\* platform and the account not in it
CreatesWithoutFields ==
    /\ module = "account"
    /\ MissingParams(RequiredAccountParams) # << >>
    /\ \/ P("state") = "present"
       \/ /\ P("state") \in {"enabled", "disabled", "locked"}
          /\ \E d \in 1..Len(begin.domains) : begin.domains[d].name = P("domain")
          /\ NamedAccounts(begin) = {}

\* C13: when cs_account is to create the account and a required user field is
\* missing, createAccount is never called and the run ends failed with the
\* list of the missing fields
C13_RequiredFieldsFirst ==
    CreatesWithoutFields =>
        /\ \A i \in 1..Len(calls) : calls[i].api # "createAccount"
        /\ Done =>
              /\ status = "failed"
              /\ msg = "missing required arguments: "
                          \o Join(MissingParams(RequiredAccountParams))

\* C13, its case: state=locked on an account that is not there, email and
\* last_name missing, has failed
C13_Witness ==
    /\ CreatesWithoutFields
    /\ P("state") = "locked"
    /\ Done
    /\ msg = "missing required arguments: email,last_name"
    /\ Apis(calls) = <<"listDomains", "listAccounts">>

\* state=absent is asked of cs_account, cs_cluster or cs_nic, and no job of
\* an earlier run is pending when the run begins
AbsentAsked ==
    /\ module \in {"account", "cluster", "nic"}
    /\ P("state") = "absent"
    /\ \A j \in 1..Len(begin.jobs) : begin.jobs[j].jobstatus # 0

\* the account or the cluster of the options is on the platform when the run
\* begins, or the address of the options is then a secondary address of the
\* NIC the run has looked up
ExistsAtBegin ==
    CASE module = "account" -> NamedAccounts(begin) # {}
      [] module = "cluster" -> NamedClusters(begin) # {}
      [] module = "nic" ->
            /\ self.nic # NoneD
            /\ \E n \in Range(begin.nics) :
                  /\ n.id = self.nic.id
                  /\ \E i \in 1..Len(n.secondaryip) :
                        n.secondaryip[i].ipaddress = P("vm_guest_ip")
      [] OTHER -> FALSE

\* the call that deletes the resource of the module
DeleteApi ==
    CASE module = "account" -> "deleteAccount"
      [] module = "cluster" -> "deleteCluster"
      [] OTHER -> "removeIpFromNic"

PresentOfMissingAccount ==
    /\ module = "account"
    /\ P("state") = "present"
    /\ ~check_mode
    /\ \A f \in Range(RequiredAccountParams) : P(f) # None
    /\ \E d \in 1..Len(begin.domains) : begin.domains[d].name = P("domain")
    /\ NamedAccounts(begin) = {}

\* C15: such a run issues no mutating call but one createAccount; it ends
\* with that call issued and changed set, failed only if the platform
\* answered the call with an error; a run that ends without failure returns
\* the account the platform created, in the state the platform creates
\* accounts in
C15_PresentCreatesOnce ==
    PresentOfMissingAccount =>
        /\ Len(Mutating(calls)) <= 1
        /\ \A i \in 1..Len(calls) :
              calls[i].api \in MutatingApis => calls[i].api = "createAccount"
        /\ Done =>
              /\ Len(Mutating(calls)) = 1
              /\ result.changed
              /\ status = "ok" \/ (status = "failed" /\ msg = Failed(ErrorText))
        /\ Completed =>
              /\ NamedAccounts(remote) # {}
              /\ \A i \in NamedAccounts(remote) :
                    /\ result.out.id = remote.accounts[i].id
                    /\ result.out.name = P("name")
                    /\ result.out.state = remote.accounts[i].state
                    /\ result.out.state = "enabled"

\* C15, its case: such a run has ended without failure
C15_Witness ==
    /\ PresentOfMissingAccount
    /\ Completed
    /\ run = 1
    /\ Apis(calls) = <<"listDomains", "listAccounts", "createAccount">>

\* the list calls of the run
ListApis ==
    {"listDomains", "listAccounts", "listProjects", "listZones", "listPods",
     "listVPCs", "listNetworks", "listVirtualMachines", "listNics", "listClusters",
     "listOsTypes", "listHypervisors"}

\* the calls of an API among the calls of the run
CallsOf(api) == SelectSeq(calls, LAMBDA x : x.api = api)

CacheKept ==
    run' = run =>
        /\ \A kind \in {"domain", "account", "project", "zone", "vpc", "network",
                         "vm", "nic", "cluster", "os_type"} :
              self[kind] # NoneD => self'[kind] = self[kind]
        /\ self.hypervisor # None => self'.hypervisor = self.hypervisor

\* the names cs_nic returns at its end are those of the resources kept when
\* they were resolved earlier in the run
NamesFromCache ==
    (module = "nic" /\ Completed) =>
        /\ result.out.vm = self.vm.name
        /\ self.network # NoneD => result.out.network = self.network.name
        /\ self.account # NoneD => result.out.account = self.account.name
        /\ self.domain # NoneD => result.out.domain = self.domain.path

\* the project a list call is sent with is the project that is kept: the
\* later calls of get_project return its id
ProjectFromCache ==
    \A i \in 1..Len(calls) :
        ("projectid" \in DOMAIN calls[i] /\ calls[i].projectid # None) =>
            (self.project # NoneD /\ calls[i].projectid = self.project.id)

\* what the second of two calls of a getter has returned.  get_hypervisor
\* returns the name it has kept.  get_os_type, with an OS type kept, reads
\* the key from the zone that is kept and not from the OS type: it returns
\* the value the zone has under the key, and fails if no zone is kept or the
\* zone has no such key
SecondCall ==
    /\ (module = "hypervisor" /\ Done /\ self.hypervisor # None) =>
          /\ status = "ok"
          /\ cur.first = self.hypervisor
          /\ cur.second = self.hypervisor
    /\ (module = "ostype" /\ Done /\ self.os_type # NoneD) =>
          IF /\ params.key \in DOMAIN self.os_type
             /\ self.zone # NoneD
             /\ params.key \in DOMAIN self.zone
          THEN /\ status = "ok"
               /\ cur.first = self.os_type[params.key]
               /\ cur.second = self.zone[params.key]
          ELSE /\ status = "failed"
               /\ msg = "Something went wrong: " \o params.key \o " not found"

VpcNetworkIds ==
    UNION {{remote.vpcs[v].network[n].id : n \in 1..Len(remote.vpcs[v].network)} :
              v \in 1..Len(remote.vpcs)}

\* the default NIC of the virtual machine vm is on a network of a VPC
IsVmInVpc(vm) ==
    /\ "nic" \in DOMAIN vm
    /\ \E n \in 1..Len(vm.nic) :
          vm.nic[n].isdefault /\ vm.nic[n].networkid \in VpcNetworkIds

\* C17, as the claim has it: when no VPC is specified, in the module that
\* calls get_vm and get_network, cs_nic, the virtual machine get_vm has found
\* has its default NIC on no network of a VPC, the network get_network has
\* found belongs to no VPC, and listVPCs is called at most once in the run
C17_NoVpcResourceWithoutVpc ==
    (module = "nic" /\ P("vpc") = None /\ E("CLOUDSTACK_VPC") = None) =>
        /\ self.vm # NoneD => ~IsVmInVpc(self.vm)
        /\ self.network # NoneD => "vpcid" \notin DOMAIN self.network
        /\ Len(CallsOf("listVPCs")) <= 1

\* the kinds of resource a lookup of cs_cluster or cs_nic selects among the
\* candidates the platform lists
Kinds == {"account", "zone", "pod", "cluster", "vm", "nic"}

\* the candidates of a kind, in the order the platform lists them when the
\* run begins: the accounts of the name in the domain resolved, the zones
\* that go by the name asked for, the pods of the name in the zone resolved,
\* the clusters of the name, the virtual machines that go by the name asked
\* for, and the NICs of the virtual machine resolved, on the network of the
\* options if one is given
Candidates(kind) ==
    CASE kind = "account" ->
            SelectSeq(begin.accounts,
                      LAMBDA a : /\ module \in {"nic", "facts"}
                                 /\ a.name = (IF P("account") # None THEN P("account")
                                               ELSE E("CLOUDSTACK_ACCOUNT"))
                                 /\ self.domain # NoneD
                                 /\ a.domainid = self.domain.id)
      [] kind = "zone" ->
            SelectSeq(begin.zones,
                      LAMBDA z : Lower(P("zone")) \in {Lower(z.name), z.id})
      [] kind = "pod" ->
            SelectSeq(begin.pods,
                      LAMBDA p : /\ p.name = P("pod")
                                 /\ self.zone # NoneD
                                 /\ p.zoneid = self.zone.id)
      [] kind = "cluster" ->
            SelectSeq(begin.clusters,
                      LAMBDA x : module = "cluster" /\ x.name = P("name"))
      [] kind = "vm" ->
            SelectSeq(begin.vms, LAMBDA v : module = "nic" /\ VmNamed(P("vm"), v))
      [] OTHER ->
            SelectSeq(begin.nics,
                      LAMBDA n : /\ self.vm # NoneD
                                 /\ n.virtualmachineid = self.vm.id
                                 /\ \/ argv.network = None
                                    \/ /\ self.network # NoneD
                                       /\ n.networkid = self.network.id)

\* the ids of the candidates of a kind the run has selected: the resource
\* that is kept, and for the pod, which is not kept, the pod addCluster was
\* called with
SelectedIds(kind) ==
    IF kind = "pod"
    THEN {x.args.podid : x \in {y \in Range(calls) : y.api = "addCluster"}}
    ELSE IF self[kind] = NoneD THEN {} ELSE {self[kind].id}

\* the messages of a lookup of a kind that has found nothing
NotFound(kind) ==
    CASE kind = "account" -> {"Account 'acme' not found"}
      [] kind = "zone" -> {"zone 'Zone1' not found"}
      [] kind = "pod" -> {"Pod pod1 not found in zone Zone1."}
      [] kind = "vm" -> {"Virtual machine 'web1' not found"}
      [] OTHER -> {}

\* the platform lists more than one candidate of a kind
Ambiguous(kind) == Len(Candidates(kind)) > 1

\* C18, as the claim has it: with more than one candidate of a kind, the
\* resolver selects none of them and the run ends failed
C18_AmbiguousFails ==
    \A kind \in Kinds :
        Ambiguous(kind) =>
            /\ SelectedIds(kind) = {}
            /\ Done => status = "failed"

\* C18, as amended: with more than one candidate of a kind, the resolver
\* selects no other than the first the platform lists: the account, the
\* zone, the cluster, the virtual machine and the NIC that are kept, and the
\* pod addCluster is called with, are the first of their candidates; and the
\* run does not end with the message of a lookup of the kind that has found
\* nothing
C18_FirstCandidateSelected ==
    \A kind \in Kinds :
        Ambiguous(kind) =>
            /\ SelectedIds(kind) \subseteq {Candidates(kind)[1].id}
            /\ msg \notin NotFound(kind)

\* C18, its case: cs_cluster has created a cluster on a platform with two
\* zones and, in the first of them, two pods to choose from, in the first
\* zone and the first pod
C18_Witness ==
    /\ module = "cluster"
    /\ Completed
    /\ ~check_mode
    /\ Ambiguous("zone")
    /\ Ambiguous("pod")
    /\ SelectedIds("zone") = {"z-1"}
    /\ SelectedIds("pod") = {"p-1"}
    /\ Apis(Mutating(calls)) = <<"addCluster">>

\* the messages of the lookups that have not found what the options name
NotFoundByName ==
    {"Instance not found: " \o P("name"),
     "Virtual machine '" \o P("vm") \o "' not found",
     "zone '" \o P("zone") \o "' not found",
     "project '" \o P("project") \o "' not found",
     "Hypervisor '" \o P("hypervisor") \o "' not found",
     "VPC '" \o P("vpc") \o "' not found",
     "Network '" \o (IF "network" \in DOMAIN argv THEN argv.network ELSE None)
                 \o "' not found",
     "OS type '" \o P("os_type") \o "' not found"}

\* C19, as the claim has it: no lookup fails to find a resource by a name
\* that differs from the name on the platform in letter case only, and no
\* lookup finds a resource by an id in another letter case: the virtual
\* machine vm-1 for VM-1, the zone z-1 for Z-1, the project pr-1 for PR-1
C19_NamesIgnoreCase ==
    /\ (/\ \/ P("name") = "WEB1"
            \/ P("vm") = "WEB1"
            \/ P("zone") = "zone1"
            \/ P("project") = "PROJ1"
            \/ P("hypervisor") = "kvm"
            \/ P("vpc") = "VPC1"
            \/ (module = "nic" /\ argv.network = "NET1")
            \/ P("os_type") = "debian"
         /\ module # "cluster"
         /\ Done
         /\ status = "failed") => msg \notin NotFoundByName
    /\ (module = "nic" /\ P("vm") = "VM-1") => self.vm = NoneD
    /\ (module = "nic" /\ P("zone") = "Z-1") => self.zone = NoneD
    /\ (module = "nic" /\ P("project") = "PR-1") => self.project = NoneD

\* the names and ids that find their resource whatever their letter case:
\* get_vm, get_instance, get_zone and get_project compare the name asked for,
\* in lower case, with the names on the platform in lower case and with the
\* id as it is; get_hypervisor compares the names in lower case
FoundInAnyCase ==
    /\ (module = "facts" /\ P("name") \in {"WEB1", "VM-1"}) =>
          /\ msg \notin NotFoundByName
          /\ Completed => result.out.id = "vm-1"
          /\ (Done /\ P("account") = None /\ E("CLOUDSTACK_ACCOUNT") = None) =>
                status = "ok"
    /\ (module = "nic" /\ P("vm") \in {"WEB1", "VM-1"}) =>
          /\ msg \notin NotFoundByName
          /\ self.vm # NoneD => self.vm.id = "vm-1"
          /\ Completed => result.out.vm = "web1"
    /\ (module = "nic" /\ P("zone") \in {"zone1", "Z-1"}) =>
          /\ msg \notin NotFoundByName
          /\ self.zone # NoneD => self.zone.id = "z-1"
          /\ Done => self.zone # NoneD
    /\ (module = "nic" /\ P("project") \in {"PROJ1", "PR-1"}) =>
          /\ msg \notin NotFoundByName
          /\ self.project # NoneD => self.project.id = "pr-1"
          /\ Done => self.project # NoneD
    /\ (module = "hypervisor" /\ P("hypervisor") = "kvm" /\ Done) =>
          /\ status = "ok"
          /\ self.hypervisor = "KVM"

\* the names and ids that find their resource only letter for letter:
\* get_vpc and get_network compare the name asked for with the display
\* text, the name and the id, get_os_type with the description and the id,
\* get_account of cs_account with the name
FoundLetterForLetter ==
    /\ (module = "nic" /\ P("vpc") \in {"VPC1", "VPC-1"}) =>
          /\ self.vpc = NoneD
          /\ Done => (status = "failed" /\ msg = "VPC '" \o P("vpc") \o "' not found")
    /\ (module = "nic" /\ P("vpc") = "vpc-1") =>
          /\ msg \notin NotFoundByName
          /\ Done => (self.vpc # NoneD /\ self.vpc.name = "vpc1")
    /\ (module = "nic" /\ argv.network \in {"NET1", "N-1"}) =>
          /\ self.network = NoneD
          /\ Done => status = "failed"
    /\ (module = "nic" /\ argv.network = "n-1" /\ Done) =>
          /\ msg \notin NotFoundByName
          /\ status = "ok" => (self.network # NoneD /\ self.network.name = "net1")
    /\ (module = "ostype" /\ P("os_type") \in {"debian", "OS-2"}) =>
          /\ self.os_type = NoneD
          /\ Done => (/\ status = "failed"
                      /\ msg = "OS type '" \o P("os_type") \o "' not found")
    /\ (module = "ostype" /\ P("os_type") = "os-2" /\ Done) =>
          (self.os_type # NoneD /\ self.os_type.description = "CentOS")
    /\ module = "account" =>
          /\ self.account # NoneD => self.account.name = P("name")
          /\ (\E a \in Range(begin.accounts) : a.name = "Acme") =>
                 (Completed /\ P("state") = "absent" => Mutating(calls) = << >>)

\* C19, as amended: the names of projects, zones, virtual machines and
\* hypervisors are matched without regard to letter case, and so is the id
\* of a project, a zone or a virtual machine when the platform has it in
\* lower case, the name asked for being put in lower case before it is
\* compared with the id; the names and ids of VPCs, networks and OS types
\* and the name of the account of cs_account are matched letter for letter
C19_CaseIgnoredForVmNotNetwork == FoundInAnyCase /\ FoundLetterForLetter

\* C19, its case: cs_nic asked for the virtual machine VM-1 has found the
\* virtual machine of the id vm-1 and has ended without failure
C19_Witness ==
    /\ module = "nic"
    /\ P("vm") = "VM-1"
    /\ Completed
    /\ self.vm.id = "vm-1"
    /\ result.out.vm = "web1"

\* the jobs the platform has accepted in this run
NewJobs == (Len(begin.jobs) + 1)..Len(remote.jobs)

\* cs_account or cs_nic runs without poll_async
Unpolling == module \in {"account", "nic"} /\ ~params.poll_async

\* C20, as the claim has it for the value returned: without poll_async, a run
\* that has issued an asynchronous call ends with the raw response of the
\* call, the one that carries the job id
C20_ReturnsRawResponse ==
    (Unpolling /\ Completed /\ NewJobs # {}) => "jobid" \in DOMAIN cur

\* C20, as amended: without poll_async the run issues no queryAsyncJobResult
\* call, and a run that has issued an asynchronous call ends without waiting
\* for the job: disabling or locking an account returns the raw response of
\* the call, deleting an account and adding or removing an address return
\* the account or the NIC as it was looked up before the call; with
\* poll_async no run ends while a job it has started is pending
C20_WaitsOnlyWithPollAsync ==
    /\ Unpolling =>
          /\ queries = 0
          /\ (Completed /\ NewJobs # {}) =>
                cur = CASE module = "nic" -> self.nic
                        [] P("state") = "absent" -> self.account
                        [] OTHER -> [jobid |-> Len(remote.jobs)]
    /\ (module \in {"account", "nic"} /\ params.poll_async /\ Done) =>
          \A j \in NewJobs : remote.jobs[j].jobstatus # 0

\* C20, its case: cs_account with state=absent and without poll_async has
\* ended while the job that deletes the account is pending
C20_Witness ==
    /\ Unpolling
    /\ module = "account"
    /\ P("state") = "absent"
    /\ Completed
    /\ NewJobs # {}
    /\ \A j \in NewJobs : remote.jobs[j].jobstatus = 0
    /\ NamedAccounts(remote) # {}

\* cs_nic is run with state=present
NicPresent == module = "nic" /\ P("state") = "present"

\* the NIC the run has looked up lists the address the option vm_guest_ip names
GuestIpListed ==
    /\ P("vm_guest_ip") # None
    /\ self.nic # NoneD
    /\ \E i \in 1..Len(self.nic.secondaryip) :
          self.nic.secondaryip[i].ipaddress = P("vm_guest_ip")

\* the addIpToNic calls of the run
AddIpCalls == SelectSeq(calls, LAMBDA x : x.api = "addIpToNic")

\* C21, as the claim has it: with state=present and an address the NIC lists
\* already, no addIpToNic call is issued and changed stays false; with
\* vm_guest_ip unset every run that ends successfully has issued addIpToNic
\* and reports changed=true
C21_PresentNicIdempotent ==
    /\ (NicPresent /\ GuestIpListed) =>
          (Len(AddIpCalls) = 0 /\ ~result.changed)
    /\ (NicPresent /\ P("vm_guest_ip") = None /\ Completed) =>
          (Len(AddIpCalls) > 0 /\ result.changed)

\* C21, as amended: with state=present and an address the NIC lists already,
\* no addIpToNic call is issued and changed stays false; with vm_guest_ip
\* unset every run that ends successfully reports changed=true, and has
\* issued addIpToNic once unless it ran in check mode, in which it issues none
C21_PresentNicIdempotentUnlessCheckMode ==
    /\ (NicPresent /\ GuestIpListed) =>
          (Len(AddIpCalls) = 0 /\ ~result.changed)
    /\ (NicPresent /\ P("vm_guest_ip") = None /\ Completed) =>
          /\ result.changed
          /\ Len(AddIpCalls) = IF check_mode THEN 0 ELSE 1

\* C21, its case: a second run with the address unset has issued addIpToNic
\* for a NIC that had a secondary address when the run began
C21_Witness ==
    /\ NicPresent
    /\ P("vm_guest_ip") = None
    /\ Completed
    /\ run = 2
    /\ ~check_mode
    /\ Len(AddIpCalls) = 1
    /\ Len(begin.nics[1].secondaryip) > 0

\* a run has ended in which a lookup of the scope found no match: the list
\* was asked for and nothing was kept of it
LookupMissed ==
    /\ Done
    /\ module \in {"account", "cluster", "nic", "facts"}
    /\ \/ "listDomains" \in Range(Apis(calls)) /\ self.domain = NoneD
       \/ "listZones" \in Range(Apis(calls)) /\ self.zone = NoneD
       \/ "listProjects" \in Range(Apis(calls)) /\ self.project = NoneD
       \/ "listVPCs" \in Range(Apis(calls)) /\ self.vpc = NoneD
       \/ "listNetworks" \in Range(Apis(calls)) /\ self.network = NoneD
       \/ "listNics" \in Range(Apis(calls)) /\ self.nic = NoneD
       \/ /\ "listAccounts" \in Range(Apis(calls))
          /\ module # "account"
          /\ self.account = NoneD
       \/ /\ "listVirtualMachines" \in Range(Apis(calls))
          /\ IF module = "nic" THEN self.vm = NoneD ELSE cur = NoneD
       \/ /\ "listPods" \in Range(Apis(calls))
          /\ self.zone # NoneD
          /\ listPods(P("pod"), self.zone.id) = << >>

\* C22: a run in which a lookup found no match has ended failed, with a
\* message and with no mutating call issued, never with an exception
C22_MissedLookupFailsWithMessage ==
    LookupMissed =>
        /\ status = "failed"
        /\ msg # None
        /\ Mutating(calls) = << >>

\* the value an option of the scope has, from the option or, if it is not
\* given, from the environment variable that stands in for it
Effective(option, variable) == IF P(option) # None THEN P(option) ELSE E(variable)

\* the domains of the platform that the effective domain names
EffectiveDomains ==
    {d \in Range(begin.domains) :
        Lower(d.path) \in DomainPaths(Effective("domain", "CLOUDSTACK_DOMAIN"))}

\* the accounts of the platform that the effective account names in the
\* effective domain
EffectiveAccounts ==
    {a \in Range(begin.accounts) :
        /\ a.name = Effective("account", "CLOUDSTACK_ACCOUNT")
        /\ \E d \in EffectiveDomains : a.domainid = d.id}

\* the VPCs of the platform that the effective VPC names
EffectiveVpcs ==
    {v \in Range(begin.vpcs) :
        NamedExactly(Effective("vpc", "CLOUDSTACK_VPC"), v)}

\* C23: a run of cs_nic or cs_instance_facts that has ended has resolved the
\* account and the VPC that the option or, without the option, the
\* environment variable names, whichever of the two carries the name
C23_EnvironmentActsAsOption ==
    (module \in {"nic", "facts"} /\ Done) =>
        /\ (/\ Effective("domain", "CLOUDSTACK_DOMAIN") # None
            /\ Effective("account", "CLOUDSTACK_ACCOUNT") # None
            /\ EffectiveAccounts # {}) => self.account \in EffectiveAccounts
        /\ (/\ module = "nic"
            /\ Effective("vpc", "CLOUDSTACK_VPC") # None
            /\ EffectiveVpcs # {}) => self.vpc \in EffectiveVpcs

\* has_changed has returned from comparing the wanted dictionary of the
\* options with the current dictionary the run began with
Compared == module = "diff" /\ Completed

\* the wanted string of key k and the current string differ in letter case
\* and in nothing else
CaseOnly(k) ==
    /\ params.want[k].t = "str"
    /\ k \in DOMAIN begin.current
    /\ begin.current[k].t = "str"
    /\ params.want[k].v # begin.current[k].v
    /\ Lower(params.want[k].v) = Lower(begin.current[k].v)

\* the keys the diff reports
Reported == DOMAIN result.before \cup DOMAIN result.after

\* C24: of two strings that differ in letter case only, has_changed reports
\* the key displaytext, with the current value as before and the wanted
\* value as after, and does not report the key hypervisor; a key whose
\* wanted value is None is not reported
C24_CaseOfStrings ==
    Compared =>
        /\ CaseOnly("displaytext") =>
              /\ result.changed
              /\ "displaytext" \in DOMAIN result.before
              /\ result.before.displaytext = begin.current.displaytext.v
              /\ result.after.displaytext = params.want.displaytext.v
        /\ CaseOnly("hypervisor") => "hypervisor" \notin Reported
        /\ \A k \in DOMAIN params.want :
              params.want[k].t = "none" => k \notin Reported

\* C24, its case: the two dictionaries differ in the letter case of both
\* strings and in nothing else, and the size wanted is None
C24_Witness ==
    /\ Compared
    /\ CaseOnly("displaytext")
    /\ CaseOnly("hypervisor")
    /\ params.want.size.t = "none"
    /\ "size" \in DOMAIN begin.current
    /\ Reported = {"displaytext"}

\* the state cs_account is to bring the account to
TargetState ==
    CASE P("state") = "locked" -> "locked"
      [] P("state") = "disabled" -> "disabled"
      [] OTHER -> "enabled"

\* cs_account has ended successfully a run for one of the states of an
\* account that is there, without check mode and with poll_async
SubStateReached ==
    /\ module = "account"
    /\ P("state") \in {"locked", "disabled", "enabled", "unlocked"}
    /\ ~check_mode
    /\ P("poll_async")
    /\ Completed

\* C25: such a run leaves the account on the platform, in the state asked
\* for, and the state it returns is that state
C25_SubStatesConverge ==
    SubStateReached =>
        /\ NamedAccounts(remote) # {}
        /\ \A i \in NamedAccounts(remote) : remote.accounts[i].state = TargetState
        /\ "state" \in DOMAIN result.out
        /\ result.out.state = TargetState

\* C25, its case: a disabled account has been locked, by enableAccount and
\* then disableAccount, and the job has been polled to its end
C25_Witness ==
    /\ SubStateReached
    /\ P("state") = "locked"
    /\ \E i \in NamedAccounts(begin) : begin.accounts[i].state = "disabled"
    /\ Apis(Mutating(calls)) = <<"enableAccount", "disableAccount">>
    /\ queries > 0
    /\ \A i \in NamedAccounts(remote) : remote.accounts[i].state = "locked"

\* the mutating calls of cs_account, cs_cluster and cs_nic
ModuleApis ==
    {"createAccount", "enableAccount", "disableAccount", "deleteAccount",
     "addCluster", "updateCluster", "deleteCluster", "addIpToNic",
     "removeIpFromNic"}

\* a step issues one of these calls and the platform refuses it: it answers
\* with an error text, changes nothing and starts no job
Refused(apis) ==
    /\ Len(calls') > Len(calls)
    /\ calls'[Len(calls')].api \in apis
    /\ remote' = remote

\* the run is aborted with the error text of the platform in its message
AbortedWithErrorText ==
    /\ status' = "failed"
    /\ msg' = "Failed: '" \o ErrorText \o "'"
    /\ pc' = "done"

\* C26: when the platform refuses a mutating call, the run ends at once,
\* failed with a message that holds the error text of the platform
C26_RefusedCallAborts == [][Refused(ModuleApis) => AbortedWithErrorText]_vars

\* the kinds of resource a run keeps once it has resolved them
CachedKinds ==
    {"domain", "account", "project", "zone", "vpc", "network", "vm", "os_type"}

\* a step of a run replaces no resource the run has kept
EntriesKept ==
    run' = run => \A kind \in CachedKinds : self[kind] # NoneD => self'[kind] = self[kind]

\* the second call of get_os_type has returned what the first returned, the
\* value the OS type kept has under the key
OsTypeRepeated ==
    (module = "ostype" /\ Done /\ self.os_type # NoneD /\ cur # NoneD) =>
        /\ status = "ok"
        /\ cur.first = self.os_type[params.key]
        /\ cur.second = cur.first

\* C27: a resource a getter has resolved stays the one kept for the rest of
\* the run, and a later call of the getter with the same key returns the
\* value the first call returned, taken from the resource kept
C27_CachedEntriesStable ==
    /\ [](OsTypeRepeated /\ NamesFromCache)
    /\ [][EntriesKept]_vars

\* the NICs addIpToNic has been called for in this run
NicsAddedTo ==
    {x.nicid : x \in {y \in Range(calls) : y.api = "addIpToNic"}}

\* C28: with the option network given, the NIC cs_nic has looked up is a NIC
\* of the virtual machine on that network, and an address is added to no
\* NIC on another network
C28_NicOfGivenNetwork ==
    (module = "nic" /\ argv.network # None /\ self.network # NoneD) =>
        /\ self.nic # NoneD => self.nic.networkid = self.network.id
        /\ \A n \in Range(begin.nics) :
              n.id \in NicsAddedTo => n.networkid = self.network.id

\* the ids of the clusters updateCluster or deleteCluster was called for
ClustersTouched ==
    {x.args.id : x \in {y \in Range(calls) : y.api = "updateCluster"}}
    \cup {x.id : x \in {y \in Range(calls) : y.api = "deleteCluster"}}

\* the ids of the zones the option zone names
ZonesGiven ==
    {z.id : z \in {y \in Range(begin.zones) :
                      Lower(P("zone")) \in {Lower(y.name), y.id}}}

\* C29: with the option zone given, cs_cluster calls updateCluster and
\* deleteCluster for clusters of that zone only
C29_ClusterOfGivenZone ==
    (module = "cluster" /\ P("zone") # None) =>
        \A x \in Range(begin.clusters) :
            x.id \in ClustersTouched => x.zoneid \in ZonesGiven

\* C30: without check mode, a run of cs_account, cs_cluster, cs_nic or
\* ensure_tags that has ended successfully reports changed=true if and only
\* if it has issued a mutating call; cs_instance_facts issues no mutating
\* call and does not report changed=true
C30_ChangedIffMutated ==
    /\ (module \in {"account", "cluster", "nic", "tags"} /\ ~check_mode /\ Completed)
          => (result.changed <=> Len(Mutating(calls)) > 0)
    /\ module = "facts" => (Len(Mutating(calls)) = 0 /\ ~result.changed)

\* C30, its cases: cs_cluster has updated a cluster and reports changed=true
\* in a first run, and has found nothing to update and reports changed=false
\* in the second
C30_Witness ==
    /\ module = "cluster"
    /\ run = 2
    /\ ~check_mode
    /\ Completed
    /\ ~result.changed
    /\ Len(Mutating(calls)) = 0
    /\ prev.status = "ok"
    /\ ~prev.check_mode
    /\ prev.changed
    /\ Apis(Mutating(prev.calls)) = <<"updateCluster">>

====
